---- MODULE Spec2Model ----
(***************************************************************************)
(* Model of the ai-council discussion engine:                              *)
(*   council/hats.py     HatManager  (role allocator)                      *)
(*   council/session.py  Session     (run() state machine, event stream)   *)
(* Session.run() is an async generator: every action of the session model  *)
(* is the code executed from one suspension point (a yield) to the next.   *)
(* request_stop / request_summary are called from the UI's context and may *)
(* interleave between any two such steps.                                  *)
(***************************************************************************)
EXTENDS Integers, Sequences, FiniteSets, TLC

\* ------------------------------------------------------------------ bounds
\* participants * rounds of a modelled session is at most MaxTurns
MaxTurns == 2
\* total number of text fragments the provider streams deliver in one run
MaxFragments == 1
\* number of assign_hat calls followed by the allocator specification
MaxAssign == 6
\* participants and rounds of the largest speaking order built step by step
MaxOrderMembers == 3
MaxOrderRounds == 3
\* longest model reply and longest remaining_members list given to
\* select_next_speaker
MaxReplyLen == 2
MaxRemaining == 2
\* runs of one Session object followed by the re-run specification
MaxRuns == 2
\* rounds of the one-participant run of the long-run specification
MaxLongRounds == 6
\* highest total_rounds handed to after_speech_summary
MaxStyleRounds == 4
\* longest speech text handed to _extract_question
MaxSpeechLen == 4
\* longest topic typed into the form
MaxTopicLen == 2
\* most tool calls one model reply carries
MaxToolCalls == 2
\* largest max_retries a modelled chat call is given
MaxRetries == 2
\* fragments one provider attempt of a streaming call delivers at most
MaxAttemptFragments == 1

\* --------------------------------------------------------------- constants
HatColor == {"white", "red", "black", "yellow", "green"}
MEMBER_HATS == <<"white", "red", "black", "yellow", "green">>
FIRST_SPEAKER_HATS == <<"white", "green">>
NoHat == "none"

MemberNames == <<"Alice", "Bob", "Carol", "David", "Eve">>
ModeratorName == "Max"
SummaryName == "Max-summary"

SessionState == {"idle", "running", "summarizing", "finished"}
MessageType == {"opening", "speech", "round_summary", "final_summary", "search_result"}

\* ----------------------------------------------------------------- helpers
InSeq(x, s) == \E k \in 1..Len(s) : s[k] = x

Range(s) == {s[k] : k \in 1..Len(s)}

\* mutant of RemoveFirst: the drawn hat stays in the pool
RemoveNone(s, x) == s

\* list.remove(x): drops the first occurrence of x
RemoveFirst(s, x) ==
  LET k == CHOOSE j \in 1..Len(s) : s[j] = x /\ \A m \in 1..(j - 1) : s[m] # x
  IN  SubSeq(s, 1, k - 1) \o SubSeq(s, k + 1, Len(s))

\* all arrangements of the elements of a sequence (random.shuffle outcomes)
RECURSIVE Perms(_)
Perms(S) ==
  IF S = {} THEN {<<>>}
  ELSE UNION {{<<x>> \o p : p \in Perms(S \ {x})} : x \in S}

VARIABLES
  members,            \* config: display names of the enabled members
  total_rounds,       \* config.total_rounds
  state,              \* Session.state
  history,            \* Session.history
  stop_requested,     \* Session._stop_requested
  summary_requested,  \* Session._summary_requested
  speech_count,       \* Session._speech_count
  latest_summary,     \* Session._latest_summary
  current_round,      \* Session._current_round
  current_hat_info,   \* Session._current_hat_info (the hat, or NoHat)
  hat_counts,         \* HatManager.hat_counts
  available_hats,     \* HatManager.available_hats
  hat_log,            \* results of the assign_hat calls since construction/reset
  fresh_counts,       \* hat_counts of a newly constructed HatManager given the
  fresh_hats,         \*   calls made since the last reset(), and its available_hats
  pc,                 \* where run() is suspended
  events,             \* SessionEvents yielded so far
  speaking_order,     \* run(): speaking_order
  i,                  \* run(): loop index
  speech_succeeded,   \* run(): speech_succeeded
  content_parts,      \* content_parts of the stream being consumed
  fragments,          \* fragments delivered so far by provider streams
  round_num,          \* run(): rounds already added to the speaking order being built
  sel_pc,             \* select_next_speaker: idle, awaiting the reply, returned
  sel_remaining,      \* remaining_members
  sel_reply,          \* response["content"]
  sel_result,         \* the value returned
  ui_pc,              \* start_discussion: idle, rejected, created (a Session exists)
  ui_topic,           \* the topic typed into the form
  ui_slots,           \* for each member slot, whether a model is selected
  ui_out,             \* the validation message start_discussion yielded
  mod_pc,             \* Moderator._chat_with_optional_search: position
  messages,           \* its call-local message list
  response,           \* the reply of its first model call
  tc_index,           \* tool calls of the reply already processed
  search_results,     \* its local search_results list: [id of the tool call, text]
  model_calls,        \* model calls it made: [stream, tools, context]
  searches,           \* calls it made to SearchService.search (tool call ids)
  cl_pc,              \* OpenRouterClient: where the logical chat call stands
  cl_stream,          \* chat(stream=...)
  max_retries,        \* chat(max_retries=...)
  attempt,            \* loop variable of _chat_with_retry / _stream_chat
  attempts,           \* provider requests (completions.create) made so far
  cl_choices,         \* number of choices in the response of the successful request
  outcomes,           \* what the provider did in each attempt made so far
  delays,             \* backoff delays slept so far (seconds)
  cooldowns,          \* number of REQUEST_DELAY sleeps so far
  delivered,          \* fragments the caller received: [attempt, k]
  last_error,         \* last_error
  cl_error,           \* the exception the call raised, if any
  st_pc,              \* Moderator.after_speech_summary: idle, called, prompted
  st_args,            \* its arguments
  st_prompt,          \* the user prompt it built
  q_pc,               \* Session._extract_question: idle, called, returned
  q_text,             \* its argument content
  q_result            \* the value returned

vars == <<members, total_rounds, state, history, stop_requested, summary_requested,
          speech_count, latest_summary, current_round, current_hat_info,
          hat_counts, available_hats, hat_log, fresh_counts, fresh_hats, pc, events,
          speaking_order, i, speech_succeeded, content_parts, fragments, round_num,
          sel_pc, sel_remaining, sel_reply, sel_result,
          ui_pc, ui_topic, ui_slots, ui_out,
          mod_pc, messages, response, tc_index, search_results, model_calls, searches,
          cl_pc, cl_stream, max_retries, attempt, attempts, cl_choices, outcomes,
          delays, cooldowns, delivered, last_error, cl_error,
          st_pc, st_args, st_prompt, q_pc, q_text, q_result>>

configVars == <<members, total_rounds>>
hatVars == <<hat_counts, available_hats, hat_log, fresh_counts, fresh_hats>>
flagVars == <<stop_requested, summary_requested>>
runVars == <<pc, events, speaking_order, i, speech_succeeded, content_parts, fragments>>
orderVars == <<round_num>>
uiVars == <<ui_pc, ui_topic, ui_slots, ui_out>>
modVars == <<mod_pc, messages, response, tc_index, search_results, model_calls, searches>>
selectVars == <<sel_pc, sel_remaining, sel_reply, sel_result>>
clientVars == <<cl_pc, cl_stream, max_retries, attempt, attempts, cl_choices, outcomes,
                delays, cooldowns, delivered, last_error, cl_error>>
styleVars == <<st_pc, st_args, st_prompt>>
questionVars == <<q_pc, q_text, q_result>>
sessionVars == <<state, history, speech_count, latest_summary, current_round,
                 current_hat_info>>

\* ------------------------------------------------------------- HatManager
\* mutant of Refilled: the pool is refilled while one hat is still in it
RefilledEarly(avail) == IF Len(avail) <= 1 THEN MEMBER_HATS ELSE avail

\* available_hats after "if not self.available_hats: refill"
Refilled(avail) == IF avail = <<>> THEN MEMBER_HATS ELSE avail

FirstCandidates(avail) == SelectSeq(avail, LAMBDA h : InSeq(h, FIRST_SPEAKER_HATS))

\* mutant of PoolFor: no second refill when the pool holds no first-speaker hat
PoolForSingleRefill(avail, is_first) == IF avail = <<>> THEN MEMBER_HATS ELSE avail

\* available_hats when the draw happens (after both refill branches)
PoolFor(avail, is_first) ==
  LET a1 == Refilled(avail)
  IN  IF is_first /\ FirstCandidates(a1) = <<>> THEN MEMBER_HATS ELSE a1

\* candidates handed to random.choice
CandidatesFor(avail, is_first) ==
  IF is_first THEN FirstCandidates(PoolFor(avail, is_first))
  ELSE PoolFor(avail, is_first)

\* assign_hat returning `selected`
assign_hat(is_first, selected) ==
  /\ InSeq(selected, CandidatesFor(available_hats, is_first))
  /\ available_hats' = RemoveFirst(PoolFor(available_hats, is_first), selected)
  /\ hat_counts' = [hat_counts EXCEPT ![selected] = @ + 1]
  /\ hat_log' = Append(hat_log, [first |-> is_first, hat |-> selected])
  \* the same call, with the same draw, on the newly constructed allocator
  /\ IF InSeq(selected, CandidatesFor(fresh_hats, is_first))
     THEN /\ fresh_hats' = RemoveFirst(PoolFor(fresh_hats, is_first), selected)
          /\ fresh_counts' = [fresh_counts EXCEPT ![selected] = @ + 1]
     ELSE UNCHANGED <<fresh_hats, fresh_counts>>

\* HatManager(): the dataclass defaults (lines 101-102)
NewCounts == [h \in HatColor |-> 0]
NewHats == <<>>

\* mutant of reset: the pool is refilled but the usage counts are kept
reset_keeps_counts ==
  /\ UNCHANGED hat_counts
  /\ available_hats' = MEMBER_HATS
  /\ hat_log' = <<>>
  /\ fresh_counts' = NewCounts
  /\ fresh_hats' = NewHats

reset ==
  /\ hat_counts' = [h \in HatColor |-> 0]
  /\ available_hats' = MEMBER_HATS
  /\ hat_log' = <<>>
  /\ fresh_counts' = NewCounts
  /\ fresh_hats' = NewHats

\* get_distribution_summary: the usage count of each hat, in MEMBER_HATS order
get_distribution_summary(counts) == [k \in 1..Len(MEMBER_HATS) |-> counts[MEMBER_HATS[k]]]

\* get_unused_hats for given usage counts
UnusedHats(counts) == SelectSeq(MEMBER_HATS, LAMBDA h : counts[h] = 0)

get_unused_hats == SelectSeq(MEMBER_HATS, LAMBDA h : hat_counts[h] = 0)

\* ------------------------------------------------------- OpenRouterClient
BASE_RETRY_DELAY == 2
NoError == [attempt |-> -1, kind |-> "none"]

\* no chat call in progress
ClientInit ==
  /\ cl_pc = "idle"
  /\ cl_stream = FALSE
  /\ max_retries = 0
  /\ attempt = 0
  /\ attempts = 0
  /\ cl_choices = 0
  /\ outcomes = <<>>
  /\ delays = <<>>
  /\ cooldowns = 0
  /\ delivered = <<>>
  /\ last_error = NoError
  /\ cl_error = NoError

\* --------------------------------------------------------------------- UI
NumSlots == 5

\* the form before start_discussion is called
UiInit ==
  /\ ui_pc = "idle"
  /\ ui_topic = <<>>
  /\ ui_slots = [k \in 1..NumSlots |-> FALSE]
  /\ ui_out = ""

\* ----------------------------------------------- calls not yet made
NoArgs == [topic |-> "", speaker_name |-> "", speaker_content |-> "", speaker_hat |-> "",
           previous_summary |-> "", current_round |-> 0, total_rounds |-> 0,
           hat_distribution |-> ""]
NoPrompt == [kind |-> "", style |-> "", speaker_name |-> "", speaker_hat |-> "",
             speaker_content |-> "", context |-> "", hat_section |-> "",
             current_round |-> 0, total_rounds |-> 0]
\* no after_speech_summary call has been made
StyleInit ==
  /\ st_pc = "idle"
  /\ st_args = NoArgs
  /\ st_prompt = NoPrompt

\* no _extract_question call has been made
QuestionInit ==
  /\ q_pc = "idle"
  /\ q_text = <<>>
  /\ q_result = <<>>

\* -------------------------------------------------------------- Moderator
NoResponse == [content |-> <<>>, tool_calls |-> <<>>]

\* no final summary in progress
ModeratorInit ==
  /\ mod_pc = "idle"
  /\ messages = <<>>
  /\ response = NoResponse
  /\ tc_index = 0
  /\ search_results = <<>>
  /\ model_calls = <<>>
  /\ searches = <<>>

\* ------------------------------------------------------------------- Init
\* Session.__init__ for one configuration
Configs ==
  {c \in [n : 1..MaxTurns, r : 1..MaxTurns] : c.n * c.r <= MaxTurns /\ c.n <= Len(MemberNames)}

SessionInit(c) ==
  /\ members = SubSeq(MemberNames, 1, c.n)
  /\ total_rounds = c.r
  /\ state = "idle"
  /\ history = <<>>
  /\ stop_requested = FALSE
  /\ summary_requested = FALSE
  /\ speech_count = 0
  /\ latest_summary = <<>>
  /\ current_round = 1
  /\ current_hat_info = NoHat
  /\ hat_counts = NewCounts
  /\ available_hats = NewHats
  /\ hat_log = <<>>
  /\ fresh_counts = NewCounts
  /\ fresh_hats = NewHats
  /\ pc = "idle"
  /\ events = <<>>
  /\ speaking_order = <<>>
  /\ i = 0
  /\ speech_succeeded = FALSE
  /\ content_parts = <<>>
  /\ fragments = 0
  /\ round_num = 0
  /\ sel_pc = "idle"
  /\ sel_remaining = <<>>
  /\ sel_reply = <<>>
  /\ sel_result = <<>>
  /\ UiInit
  /\ ModeratorInit
  /\ ClientInit
  /\ StyleInit
  /\ QuestionInit

Init == \E c \in Configs : SessionInit(c)

\* ---------------------------------------------------------------- Session
Event(type, tag, speaker, content, streaming, final, idx, hat) ==
  [event_type |-> type, tag |-> tag, speaker_name |-> speaker, content |-> content,
   is_streaming |-> streaming, is_final |-> final, speech_index |-> idx, hat |-> hat]

Message(role, content, speaker, mtype, hat) ==
  [role |-> role, content |-> content, speaker_name |-> speaker,
   message_type |-> mtype, hat_color |-> hat]

\* mutant of add_message: the list is rebuilt around the new entry
add_message_replacing(msg) == history' = <<msg>>

\* mutant of add_message: the new entry is put in front
add_message_in_front(msg) == history' = <<msg>> \o history

\* _add_message: self.history.append(msg)
add_message(msg) == history' = Append(history, msg)

\* yield SessionEvent(...)
Emit(e) == events' = Append(events, e)

\* the flags as read at a checkpoint of the speaking loop (lines 145, 160)
LoopFlag(stop, summary) == stop \/ summary

\* the flag read after each opening event (line 131)
OpeningFlag(stop, summary) == stop

\* speaking orders run() can build: one shuffle of the members per round
\* mutant of Orders: one round too many is scheduled
RECURSIVE OrdersExtraRound(_)
OrdersExtraRound(r) ==
  IF r = 0 THEN Perms(Range(members))
  ELSE {o \o p : o \in OrdersExtraRound(r - 1), p \in Perms(Range(members))}

RECURSIVE Orders(_)
Orders(r) ==
  IF r = 0 THEN {<<>>}
  ELSE {o \o p : o \in Orders(r - 1), p \in Perms(Range(members))}

\* the k-th fragment of a stream is identified by its position k
NextFragment == Len(content_parts) + 1

\* mutant of request_stop: the other flag is raised too
request_stop_raises_both ==
  /\ stop_requested' = TRUE
  /\ summary_requested' = TRUE
  /\ UNCHANGED <<configVars, styleVars, questionVars, uiVars, modVars, selectVars, orderVars, clientVars, hatVars, runVars, sessionVars>>

request_stop ==
  /\ stop_requested' = TRUE
  /\ UNCHANGED <<configVars, styleVars, questionVars, uiVars, modVars, selectVars, orderVars, clientVars, hatVars, runVars, sessionVars, summary_requested>>

request_summary ==
  /\ summary_requested' = TRUE
  /\ UNCHANGED <<configVars, styleVars, questionVars, uiVars, modVars, selectVars, orderVars, clientVars, hatVars, runVars, sessionVars, stop_requested>>

\* mutant of run_start: the hat manager, the round counter and the running
\* summary are left as the earlier run left them
run_start_without_reset ==
  /\ state' = "running"
  /\ stop_requested' = FALSE
  /\ summary_requested' = FALSE
  /\ speech_count' = 0
  /\ current_hat_info' = NoHat
  /\ events' = Append(events, [event_type |-> "system", tag |-> "start",
                               speaker_name |-> "", content |-> <<>>,
                               is_streaming |-> FALSE, is_final |-> FALSE,
                               speech_index |-> 0, hat |-> NoHat])
  /\ pc' = "started"
  /\ UNCHANGED <<configVars, styleVars, questionVars, uiVars, modVars, selectVars, orderVars, clientVars, hatVars,
                 latest_summary, current_round, history, speaking_order, i,
                 speech_succeeded, content_parts, fragments>>

\* mutant of run_start: the two flags are left as they were
run_start_keeps_flags ==
  /\ state' = "running"
  /\ speech_count' = 0
  /\ latest_summary' = <<>>
  /\ reset
  /\ current_round' = 1
  /\ current_hat_info' = NoHat
  /\ events' = Append(events, [event_type |-> "system", tag |-> "start",
                               speaker_name |-> "", content |-> <<>>,
                               is_streaming |-> FALSE, is_final |-> FALSE,
                               speech_index |-> 0, hat |-> NoHat])
  /\ pc' = "started"
  /\ UNCHANGED <<configVars, styleVars, questionVars, uiVars, modVars, selectVars, orderVars, clientVars, flagVars, history,
                 speaking_order, i, speech_succeeded, content_parts, fragments>>

\* run(), lines 113-127: reset, then the first system event
run_start ==
  /\ state' = "running"
  /\ stop_requested' = FALSE
  /\ summary_requested' = FALSE
  /\ speech_count' = 0
  /\ latest_summary' = <<>>
  /\ reset
  /\ current_round' = 1
  /\ current_hat_info' = NoHat
  /\ Emit(Event("system", "start", "", <<>>, FALSE, FALSE, 0, NoHat))
  /\ pc' = "started"
  /\ UNCHANGED <<configVars, styleVars, questionVars, uiVars, modVars, selectVars, orderVars, clientVars, history, speaking_order, i, speech_succeeded,
                 content_parts, fragments>>

\* run() is called on a newly constructed Session
RunStart ==
  /\ pc = "idle"
  /\ run_start

\* _moderator_opening, lines 184-192: the empty streaming event
OpeningBegin ==
  /\ pc = "started"
  /\ content_parts' = <<>>
  /\ Emit(Event("moderator", "begin", ModeratorName, <<>>, TRUE, FALSE, 0, NoHat))
  /\ pc' = "opening"
  /\ UNCHANGED <<configVars, styleVars, questionVars, uiVars, modVars, selectVars, orderVars, clientVars, hatVars, flagVars, sessionVars, speaking_order, i,
                 speech_succeeded, fragments>>

\* run(), lines 131-132: "if self._stop_requested: return" after an opening event
OpeningStopped ==
  /\ pc \in {"opening", "opening_final"}
  /\ OpeningFlag(stop_requested, summary_requested)
  /\ pc' = "done"
  /\ UNCHANGED <<configVars, styleVars, questionVars, uiVars, modVars, selectVars, orderVars, clientVars, hatVars, flagVars, sessionVars, events, speaking_order,
                 i, speech_succeeded, content_parts, fragments>>

\* _moderator_opening, lines 194-205: one fragment of the opening
OpeningChunk ==
  /\ pc = "opening"
  /\ ~OpeningFlag(stop_requested, summary_requested)
  /\ fragments < MaxFragments
  /\ fragments' = fragments + 1
  /\ content_parts' = Append(content_parts, NextFragment)
  /\ Emit(Event("moderator", "chunk", ModeratorName, <<NextFragment>>, TRUE, FALSE, 0, NoHat))
  /\ UNCHANGED <<configVars, styleVars, questionVars, uiVars, modVars, selectVars, orderVars, clientVars, hatVars, flagVars, sessionVars, pc, speaking_order, i,
                 speech_succeeded>>

\* _moderator_opening, lines 207-221: stream exhausted, entry appended, final event
OpeningEnd ==
  /\ pc = "opening"
  /\ ~OpeningFlag(stop_requested, summary_requested)
  /\ add_message(Message("moderator", content_parts, ModeratorName, "opening", ""))
  /\ Emit(Event("moderator", "final", ModeratorName, content_parts, FALSE, TRUE, 0, NoHat))
  /\ pc' = "opening_final"
  /\ UNCHANGED <<configVars, styleVars, questionVars, uiVars, modVars, selectVars, orderVars, clientVars, hatVars, flagVars, state, speech_count, latest_summary,
                 current_round, current_hat_info, speaking_order, i, speech_succeeded,
                 content_parts, fragments>>

\* mutant of Abort: the handler rolls history back
AbortRollsBack ==
  /\ events' = Append(events, [event_type |-> "system", tag |-> "error",
                               speaker_name |-> "", content |-> <<>>,
                               is_streaming |-> FALSE, is_final |-> FALSE,
                               speech_index |-> 0, hat |-> NoHat])
  /\ pc' = "aborting"
  /\ history' = <<>>
  /\ UNCHANGED <<configVars, styleVars, questionVars, uiVars, modVars, selectVars, orderVars, clientVars, hatVars, flagVars, state, speech_count, latest_summary,
                 current_round, current_hat_info, speaking_order, i, speech_succeeded,
                 content_parts, fragments>>

\* run(), lines 175-179: an exception reached run()'s handler; the diagnostic event
Abort ==
  /\ Emit(Event("system", "error", "", <<>>, FALSE, FALSE, 0, NoHat))
  /\ pc' = "aborting"
  /\ UNCHANGED <<configVars, styleVars, questionVars, uiVars, modVars, selectVars, orderVars, clientVars, hatVars, flagVars, sessionVars, speaking_order, i,
                 speech_succeeded, content_parts, fragments>>

\* moderator.opening raised (retries exhausted or a non-retryable error)
OpeningFail ==
  /\ pc = "opening"
  /\ ~OpeningFlag(stop_requested, summary_requested)
  /\ Abort

\* run(), line 180: after the diagnostic event, state = IDLE
AbortFinish ==
  /\ pc = "aborting"
  /\ state' = "idle"
  /\ pc' = "done"
  /\ UNCHANGED <<configVars, styleVars, questionVars, uiVars, modVars, selectVars, orderVars, clientVars, hatVars, flagVars, history, speech_count, latest_summary,
                 current_round, current_hat_info, events, speaking_order, i,
                 speech_succeeded, content_parts, fragments>>

\* mutant of final_summary_start: the state is not set to SUMMARIZING
final_summary_start_keeps_state ==
  /\ events' = Append(events, [event_type |-> "system", tag |-> "final_notice",
                               speaker_name |-> "", content |-> <<>>,
                               is_streaming |-> FALSE, is_final |-> FALSE,
                               speech_index |-> 0, hat |-> NoHat])
  /\ pc' = "final_started"
  /\ UNCHANGED <<hatVars, sessionVars, speech_succeeded, content_parts, fragments>>

\* _final_summary, lines 411-418: state = SUMMARIZING and the system event
final_summary_start ==
  /\ state' = "summarizing"
  /\ Emit(Event("system", "final_notice", "", <<>>, FALSE, FALSE, 0, NoHat))
  /\ pc' = "final_started"
  /\ UNCHANGED <<hatVars, history, speech_count, latest_summary, current_round,
                 current_hat_info, speech_succeeded, content_parts, fragments>>

\* mutant of member_speak_start: the round is the turn's number, whatever the
\* number of participants
member_speak_start_counts_turns(order, idx) ==
  LET n == speech_count + 1
      is_first == (n = 1)
  IN  /\ current_round' = idx + 1
      /\ speech_count' = n
      /\ speech_succeeded' = FALSE
      /\ \E selected \in HatColor :
           /\ assign_hat(is_first, selected)
           /\ current_hat_info' = selected
           /\ events' = Append(events, [event_type |-> "system", tag |-> "speech_start",
                                        speaker_name |-> order[idx + 1], content |-> <<>>,
                                        is_streaming |-> FALSE, is_final |-> FALSE,
                                        speech_index |-> n, hat |-> selected])
      /\ pc' = "turn_started"
      /\ UNCHANGED <<state, history, latest_summary, content_parts, fragments>>

\* run() lines 149-153 and _member_speak lines 262-279: the turn of order[idx+1]
\* starts; a hat is drawn and the "starts speaking" system event is yielded
member_speak_start(order, idx) ==
  LET n == speech_count + 1
      is_first == (n = 1)
  IN  /\ current_round' = (idx \div Len(members)) + 1
      /\ speech_count' = n
      /\ speech_succeeded' = FALSE
      /\ \E selected \in HatColor :
           /\ assign_hat(is_first, selected)
           /\ current_hat_info' = selected
           /\ Emit(Event("system", "speech_start", order[idx + 1], <<>>, FALSE, FALSE,
                         n, selected))
      /\ pc' = "turn_started"
      /\ UNCHANGED <<state, history, latest_summary, content_parts, fragments>>

\* run(), lines 144-146: the head of the speaking loop for index idx
LoopTop(order, idx) ==
  IF idx >= Len(order)
  THEN final_summary_start /\ UNCHANGED i
  ELSE /\ i' = idx
       /\ IF LoopFlag(stop_requested, summary_requested)
          THEN final_summary_start
          ELSE member_speak_start(order, idx)

\* run(), lines 134-146: the opening is over; the order is built, the loop entered
SpeakingOrderBuilt ==
  /\ pc = "opening_final"
  /\ ~OpeningFlag(stop_requested, summary_requested)
  /\ \E order \in Orders(total_rounds) :
       /\ speaking_order' = order
       /\ LoopTop(order, 0)
  /\ UNCHANGED <<configVars, styleVars, questionVars, uiVars, modVars, selectVars, orderVars, clientVars, flagVars>>

\* _member_speak, lines 281-291: the empty streaming member event
MemberBegin ==
  /\ pc = "turn_started"
  /\ content_parts' = <<>>
  /\ Emit(Event("member", "begin", speaking_order[i + 1], <<>>, TRUE, FALSE,
                speech_count, current_hat_info))
  /\ pc' = "speaking"
  /\ UNCHANGED <<configVars, styleVars, questionVars, uiVars, modVars, selectVars, orderVars, clientVars, hatVars, flagVars, sessionVars, speaking_order, i,
                 speech_succeeded, fragments>>

\* _member_speak, lines 294-313: one fragment of the member's stream
MemberChunk ==
  /\ pc = "speaking"
  /\ fragments < MaxFragments
  /\ fragments' = fragments + 1
  /\ content_parts' = Append(content_parts, NextFragment)
  /\ Emit(Event("member", "chunk", speaking_order[i + 1], <<NextFragment>>, TRUE, FALSE,
                speech_count, current_hat_info))
  /\ UNCHANGED <<configVars, styleVars, questionVars, uiVars, modVars, selectVars, orderVars, clientVars, hatVars, flagVars, sessionVars, pc, speaking_order, i,
                 speech_succeeded>>

\* mutant of MemberFail: the final member event is yielded before the warning
MemberFailAfterFinal ==
  /\ pc = "speaking"
  /\ events' = events \o
                 <<[event_type |-> "member", tag |-> "final",
                    speaker_name |-> speaking_order[i + 1], content |-> content_parts,
                    is_streaming |-> FALSE, is_final |-> TRUE,
                    speech_index |-> speech_count, hat |-> current_hat_info],
                   [event_type |-> "system", tag |-> "warning",
                    speaker_name |-> speaking_order[i + 1], content |-> <<>>,
                    is_streaming |-> FALSE, is_final |-> FALSE,
                    speech_index |-> speech_count, hat |-> NoHat]>>
  /\ current_hat_info' = NoHat
  /\ pc' = "turn_done"
  /\ UNCHANGED <<configVars, styleVars, questionVars, uiVars, modVars, selectVars, orderVars, clientVars, hatVars, flagVars, state, history, speech_count,
                 latest_summary, current_round, speaking_order, i, speech_succeeded,
                 content_parts, fragments>>

\* mutant of MemberFail: the fragments received so far are committed as a Speech entry
MemberFailCommits ==
  /\ pc = "speaking"
  /\ events' = Append(events, [event_type |-> "system", tag |-> "warning",
                               speaker_name |-> speaking_order[i + 1], content |-> <<>>,
                               is_streaming |-> FALSE, is_final |-> FALSE,
                               speech_index |-> speech_count, hat |-> NoHat])
  /\ history' = Append(history, [role |-> "member", content |-> content_parts,
                                 speaker_name |-> speaking_order[i + 1],
                                 message_type |-> "speech",
                                 hat_color |-> current_hat_info])
  /\ current_hat_info' = NoHat
  /\ pc' = "turn_done"
  /\ UNCHANGED <<configVars, styleVars, questionVars, uiVars, modVars, selectVars, orderVars, clientVars, hatVars, flagVars, state, speech_count, latest_summary,
                 current_round, speaking_order, i, speech_succeeded, content_parts,
                 fragments>>

\* _member_speak, lines 314-322: member.speak raised; warning event, no entry
MemberFail ==
  /\ pc = "speaking"
  /\ Emit(Event("system", "warning", speaking_order[i + 1], <<>>, FALSE, FALSE,
                speech_count, NoHat))
  /\ current_hat_info' = NoHat
  /\ pc' = "turn_done"
  /\ UNCHANGED <<configVars, styleVars, questionVars, uiVars, modVars, selectVars, orderVars, clientVars, hatVars, flagVars, state, history, speech_count,
                 latest_summary, current_round, speaking_order, i, speech_succeeded,
                 content_parts, fragments>>

\* _member_speak, lines 324-344: the Speech entry and the final member event;
\* run() line 157-158 sets speech_succeeded on seeing that event
MemberEnd ==
  /\ pc = "speaking"
  /\ add_message(Message("member", content_parts, speaking_order[i + 1], "speech",
                         current_hat_info))
  /\ Emit(Event("member", "final", speaking_order[i + 1], content_parts, FALSE, TRUE,
                speech_count, current_hat_info))
  /\ speech_succeeded' = TRUE
  /\ pc' = "turn_done"
  /\ UNCHANGED <<configVars, styleVars, questionVars, uiVars, modVars, selectVars, orderVars, clientVars, hatVars, flagVars, state, speech_count, latest_summary,
                 current_round, current_hat_info, speaking_order, i, content_parts,
                 fragments>>

\* _after_speech_summary, lines 357-369: the empty streaming moderator event
after_speech_summary_start ==
  /\ content_parts' = <<>>
  /\ Emit(Event("moderator", "begin", ModeratorName, <<>>, TRUE, FALSE, 0, NoHat))
  /\ pc' = "summarizing"
  /\ UNCHANGED <<hatVars, sessionVars, i, speech_succeeded, fragments>>

\* mutant of AfterTurn: a failed turn is followed by a summary too
AfterTurnSummarizesFailed ==
  /\ pc = "turn_done"
  /\ IF LoopFlag(stop_requested, summary_requested)
     THEN final_summary_start /\ UNCHANGED i
     ELSE IF i < Len(speaking_order) - 1
          THEN after_speech_summary_start
          ELSE LoopTop(speaking_order, i + 1)
  /\ UNCHANGED <<configVars, styleVars, questionVars, uiVars, modVars, selectVars, orderVars, clientVars, flagVars, speaking_order>>

\* mutant of AfterTurn: the flags are not read after the turn
AfterTurnIgnoresFlag ==
  /\ pc = "turn_done"
  /\ IF speech_succeeded /\ i < Len(speaking_order) - 1
     THEN after_speech_summary_start
     ELSE LoopTop(speaking_order, i + 1)
  /\ UNCHANGED <<configVars, styleVars, questionVars, uiVars, modVars, selectVars, orderVars, clientVars, flagVars, speaking_order>>

\* run(), lines 160-167 and back to 144: after the turn's generator is exhausted
AfterTurn ==
  /\ pc = "turn_done"
  /\ IF LoopFlag(stop_requested, summary_requested)
     THEN final_summary_start /\ UNCHANGED i
     ELSE IF speech_succeeded /\ i < Len(speaking_order) - 1
          THEN after_speech_summary_start
          ELSE LoopTop(speaking_order, i + 1)
  /\ UNCHANGED <<configVars, styleVars, questionVars, uiVars, modVars, selectVars, orderVars, clientVars, flagVars, speaking_order>>

\* _after_speech_summary, lines 371-387: one fragment of the summary
SummaryChunk ==
  /\ pc = "summarizing"
  /\ fragments < MaxFragments
  /\ fragments' = fragments + 1
  /\ content_parts' = Append(content_parts, NextFragment)
  /\ Emit(Event("moderator", "chunk", ModeratorName, <<NextFragment>>, TRUE, FALSE, 0, NoHat))
  /\ UNCHANGED <<configVars, styleVars, questionVars, uiVars, modVars, selectVars, orderVars, clientVars, hatVars, flagVars, sessionVars, pc, speaking_order, i,
                 speech_succeeded>>

\* mutant of SummaryEnd: the running summary is not updated
SummaryEndKeepsRunningSummary ==
  /\ pc = "summarizing"
  /\ history' = Append(history, [role |-> "moderator", content |-> content_parts,
                                 speaker_name |-> ModeratorName,
                                 message_type |-> "round_summary", hat_color |-> ""])
  /\ events' = Append(events, [event_type |-> "moderator", tag |-> "final",
                               speaker_name |-> ModeratorName, content |-> content_parts,
                               is_streaming |-> FALSE, is_final |-> TRUE,
                               speech_index |-> 0, hat |-> NoHat])
  /\ pc' = "summary_done"
  /\ UNCHANGED <<configVars, styleVars, questionVars, uiVars, modVars, selectVars, orderVars, clientVars, hatVars, flagVars, state, speech_count, current_round,
                 latest_summary, current_hat_info, speaking_order, i, speech_succeeded,
                 content_parts, fragments>>

\* _after_speech_summary, lines 389-407: running summary stored, entry, final event
SummaryEnd ==
  /\ pc = "summarizing"
  /\ latest_summary' = content_parts
  /\ add_message(Message("moderator", content_parts, ModeratorName, "round_summary", ""))
  /\ Emit(Event("moderator", "final", ModeratorName, content_parts, FALSE, TRUE, 0, NoHat))
  /\ pc' = "summary_done"
  /\ UNCHANGED <<configVars, styleVars, questionVars, uiVars, modVars, selectVars, orderVars, clientVars, hatVars, flagVars, state, speech_count, current_round,
                 current_hat_info, speaking_order, i, speech_succeeded, content_parts,
                 fragments>>

\* moderator.after_speech_summary raised: nothing contains it below run()
SummaryFail ==
  /\ pc = "summarizing"
  /\ Abort

\* run(), line 166 exhausted and back to 144-146 with the next index
AfterSummary ==
  /\ pc = "summary_done"
  /\ LoopTop(speaking_order, i + 1)
  /\ UNCHANGED <<configVars, styleVars, questionVars, uiVars, modVars, selectVars, orderVars, clientVars, flagVars, speaking_order>>

\* _final_summary, lines 420-427: the empty streaming moderator event
FinalBegin ==
  /\ pc = "final_started"
  /\ content_parts' = <<>>
  /\ Emit(Event("moderator", "begin", SummaryName, <<>>, TRUE, FALSE, 0, NoHat))
  /\ pc' = "final_streaming"
  /\ UNCHANGED <<configVars, styleVars, questionVars, uiVars, modVars, selectVars, orderVars, clientVars, hatVars, flagVars, sessionVars, speaking_order, i,
                 speech_succeeded, fragments>>

\* _final_summary, lines 429-440: one fragment of the final summary
FinalChunk ==
  /\ pc = "final_streaming"
  /\ fragments < MaxFragments
  /\ fragments' = fragments + 1
  /\ content_parts' = Append(content_parts, NextFragment)
  /\ Emit(Event("moderator", "chunk", SummaryName, <<NextFragment>>, TRUE, FALSE, 0, NoHat))
  /\ UNCHANGED <<configVars, styleVars, questionVars, uiVars, modVars, selectVars, orderVars, clientVars, hatVars, flagVars, sessionVars, pc, speaking_order, i,
                 speech_succeeded>>

\* mutant of FinalEnd: the final event is yielded but no entry is appended
FinalEndNoEntry ==
  /\ pc = "final_streaming"
  /\ events' = Append(events, [event_type |-> "moderator", tag |-> "final",
                               speaker_name |-> SummaryName, content |-> content_parts,
                               is_streaming |-> FALSE, is_final |-> TRUE,
                               speech_index |-> 0, hat |-> NoHat])
  /\ pc' = "final_done"
  /\ UNCHANGED <<configVars, styleVars, questionVars, uiVars, modVars, selectVars, orderVars, clientVars, hatVars, flagVars, sessionVars, speaking_order, i,
                 speech_succeeded, content_parts, fragments>>

\* _final_summary, lines 442-456: the FinalSummary entry and the final event
FinalEnd ==
  /\ pc = "final_streaming"
  /\ add_message(Message("moderator", content_parts, ModeratorName, "final_summary", ""))
  /\ Emit(Event("moderator", "final", SummaryName, content_parts, FALSE, TRUE, 0, NoHat))
  /\ pc' = "final_done"
  /\ UNCHANGED <<configVars, styleVars, questionVars, uiVars, modVars, selectVars, orderVars, clientVars, hatVars, flagVars, state, speech_count, latest_summary,
                 current_round, current_hat_info, speaking_order, i, speech_succeeded,
                 content_parts, fragments>>

\* moderator.final_summary raised
FinalFail ==
  /\ pc = "final_streaming"
  /\ Abort

\* run(), line 173: state = FINISHED
Finish ==
  /\ pc = "final_done"
  /\ state' = "finished"
  /\ pc' = "done"
  /\ UNCHANGED <<configVars, styleVars, questionVars, uiVars, modVars, selectVars, orderVars, clientVars, hatVars, flagVars, history, speech_count, latest_summary,
                 current_round, current_hat_info, events, speaking_order, i,
                 speech_succeeded, content_parts, fragments>>

Next ==
  \/ request_stop
  \/ request_summary
  \/ RunStart
  \/ OpeningBegin
  \/ OpeningStopped
  \/ OpeningChunk
  \/ OpeningEnd
  \/ OpeningFail
  \/ SpeakingOrderBuilt
  \/ MemberBegin
  \/ MemberChunk
  \/ MemberFail
  \/ MemberEnd
  \/ AfterTurn
  \/ SummaryChunk
  \/ SummaryEnd
  \/ SummaryFail
  \/ AfterSummary
  \/ FinalBegin
  \/ FinalChunk
  \/ FinalEnd
  \/ FinalFail
  \/ Finish
  \/ AbortFinish

Spec == Init /\ [][Next]_vars

\* the steps run() itself takes: every provider and search call returns or
\* raises, and the consumer keeps asking for the next event
RunSteps ==
  \/ RunStart
  \/ OpeningBegin
  \/ OpeningStopped
  \/ OpeningChunk
  \/ OpeningEnd
  \/ OpeningFail
  \/ SpeakingOrderBuilt
  \/ MemberBegin
  \/ MemberChunk
  \/ MemberFail
  \/ MemberEnd
  \/ AfterTurn
  \/ SummaryChunk
  \/ SummaryEnd
  \/ SummaryFail
  \/ AfterSummary
  \/ FinalBegin
  \/ FinalChunk
  \/ FinalEnd
  \/ FinalFail
  \/ Finish
  \/ AbortFinish
SpecLive == Spec /\ WF_vars(RunSteps)

\* ------------------------------------------- allocator specification
HatAssign ==
  /\ Len(hat_log) < MaxAssign
  /\ \E is_first \in BOOLEAN :
       \E selected \in HatColor : assign_hat(is_first, selected)
  /\ UNCHANGED <<configVars, styleVars, questionVars, uiVars, modVars, selectVars, orderVars, clientVars, flagVars, runVars, sessionVars>>

HatReset ==
  /\ reset
  /\ UNCHANGED <<configVars, styleVars, questionVars, uiVars, modVars, selectVars, orderVars, clientVars, flagVars, runVars, sessionVars>>

InitHats == SessionInit([n |-> 1, r |-> 1])
NextHats == HatAssign \/ HatReset
SpecHats == InitHats /\ [][NextHats]_vars

\* ------------------------------------------- speaking order specification
\* x with the elements at positions a and b exchanged
Swap(x, a, b) == [x EXCEPT ![a] = x[b], ![b] = x[a]]

\* random.shuffle(x): for k from the last position down to the second, the
\* element at k is exchanged with the one at a random position j <= k
RECURSIVE ShuffleFrom(_, _)
ShuffleFrom(x, k) ==
  IF k <= 1 THEN {x}
  ELSE UNION {ShuffleFrom(Swap(x, k, j), k - 1) : j \in 1..k}

Shuffle(x) == ShuffleFrom(x, Len(x))

\* mutant of OrderRound: the shuffle is applied to the whole order after the
\* round was added to it
OrderRoundShufflesAll ==
  /\ round_num < total_rounds
  /\ speaking_order' \in Shuffle(speaking_order \o members)
  /\ round_num' = round_num + 1
  /\ UNCHANGED <<configVars, styleVars, questionVars, uiVars, modVars, selectVars, clientVars, hatVars, flagVars, sessionVars, pc, events, i,
                 speech_succeeded, content_parts, fragments>>

\* run(), lines 138-141: one iteration of the loop over the rounds
OrderRound ==
  /\ round_num < total_rounds
  /\ \E round_order \in Shuffle(members) :
       speaking_order' = speaking_order \o round_order
  /\ round_num' = round_num + 1
  /\ UNCHANGED <<configVars, styleVars, questionVars, uiVars, modVars, selectVars, clientVars, hatVars, flagVars, sessionVars, pc, events, i,
                 speech_succeeded, content_parts, fragments>>

OrderConfigs == [n : 1..MaxOrderMembers, r : 1..MaxOrderRounds]
InitOrder == \E c \in OrderConfigs : SessionInit(c)
NextOrder == OrderRound
SpecOrder == InitOrder /\ [][NextOrder]_vars

\* ------------------------------------------- final summary specification
\* one entry of the call-local message list
ChatMessage(role, ids, content) == [role |-> role, ids |-> ids, content |-> content]

\* what the underlying search client does when asked: it answers, it raises,
\* or it cannot be built because no API key is set
SearchOutcomes == {"ok", "client_raises", "no_api_key"}

\* mutant of search: no try/except around the client
search_unguarded(outcome) ==
  IF outcome = "ok"
  THEN [raised |-> FALSE, error |-> FALSE, answer |-> "answer", results |-> <<"result">>]
  ELSE [raised |-> TRUE, error |-> TRUE, answer |-> "", results |-> <<>>]

\* SearchService.search: the client property and the client's search are
\* evaluated inside the try; `except Exception` returns the error as data
search(outcome) ==
  IF outcome = "ok"
  THEN [raised |-> FALSE, error |-> FALSE, answer |-> "answer", results |-> <<"result">>]
  ELSE [raised |-> FALSE, error |-> TRUE, answer |-> "", results |-> <<>>]

\* format_results_for_ai: the failure text, or the formatted results
format_results_for_ai(result) ==
  IF result.error THEN "search_failed" ELSE "search_results"

\* a tool call of a reply: its id is its position
ToolCall(id, name, arguments) == [id |-> id, name |-> name, arguments |-> arguments]
ToolCallKinds ==
  {[name |-> "web_search", arguments |-> "valid"],
   [name |-> "web_search", arguments |-> "malformed"],
   [name |-> "other", arguments |-> "valid"]}
ToolCallLists ==
  UNION {{[k \in 1..n |-> ToolCall(k, f[k].name, f[k].arguments)] : f \in [1..n -> ToolCallKinds]}
         : n \in 0..MaxToolCalls}
\* replies of the first model call: content empty or one text, any tool calls
Responses == [content : {<<>>, <<1>>}, tool_calls : ToolCallLists]

\* mutant of NeedsFollowUp: the follow-up call is made for every reply
NeedsFollowUpAlways(resp) == TRUE

\* `if response.get("tool_calls")`
NeedsFollowUp(resp) == resp.tool_calls # <<>>

\* mutant of record_search: the search is recorded as a history entry
record_search_in_history(tc) ==
  history' = Append(history, [role |-> "system", content |-> <<tc.id>>,
                              speaker_name |-> "", message_type |-> "search_result",
                              hat_color |-> ""])

\* `if on_search: on_search(query, result)`: _final_summary passes no
\* on_search, so nothing outside the call is told of the search
record_search(tc) == history' = history

\* final_summary lines 222-230 and _chat_with_optional_search lines 246-252:
\* the message list is built and the non-streaming call with the tool is made
SumFirstCall ==
  /\ pc = "final_streaming"
  /\ mod_pc = "idle"
  /\ messages' = <<ChatMessage("system", <<>>, "prompt"), ChatMessage("user", <<>>, "prompt")>>
  /\ model_calls' = Append(model_calls, [stream |-> FALSE, tools |-> {"web_search"},
                                         context |-> messages'])
  /\ mod_pc' = "first_call"
  /\ UNCHANGED <<response, tc_index, search_results, searches>>
  /\ UNCHANGED <<configVars, styleVars, questionVars, uiVars, selectVars, orderVars, clientVars, hatVars, flagVars, runVars,
                 sessionVars>>

\* the reply of the first call arrives; line 254 chooses the branch
SumFirstReply ==
  /\ pc = "final_streaming"
  /\ mod_pc = "first_call"
  /\ \E resp \in Responses :
       /\ response' = resp
       /\ mod_pc' = IF NeedsFollowUp(resp) THEN "dispatch" ELSE "plain"
  /\ tc_index' = 0
  /\ search_results' = <<>>
  /\ UNCHANGED <<messages, model_calls, searches>>
  /\ UNCHANGED <<configVars, styleVars, questionVars, uiVars, selectVars, orderVars, clientVars, hatVars, flagVars, runVars,
                 sessionVars>>

\* the first call raised
SumFirstFail ==
  /\ pc = "final_streaming"
  /\ mod_pc = "first_call"
  /\ Abort

\* lines 299-301 and session.py 434-440: the reply's content is the one chunk
SumPlainYield ==
  /\ pc = "final_streaming"
  /\ mod_pc = "plain"
  /\ response.content # <<>>
  /\ content_parts' = content_parts \o response.content
  /\ Emit(Event("moderator", "chunk", SummaryName, response.content, TRUE, FALSE, 0, NoHat))
  /\ mod_pc' = "exhausted"
  /\ UNCHANGED <<messages, response, tc_index, search_results, model_calls, searches>>
  /\ UNCHANGED <<configVars, styleVars, questionVars, uiVars, selectVars, orderVars, clientVars, hatVars, flagVars, sessionVars, pc,
                 speaking_order, i, speech_succeeded, fragments>>

\* lines 257-264: one iteration of the loop over the reply's tool calls that
\* does not raise; a web_search call is dispatched to the search service and
\* the formatted result kept in search_results
SumDispatchOne ==
  /\ pc = "final_streaming"
  /\ mod_pc = "dispatch"
  /\ tc_index < Len(response.tool_calls)
  /\ LET tc == response.tool_calls[tc_index + 1] IN
       /\ ~(tc.name = "web_search" /\ tc.arguments = "malformed")
       /\ IF tc.name = "web_search"
          THEN \E outcome \in SearchOutcomes :
                 /\ ~search(outcome).raised
                 /\ searches' = Append(searches, tc.id)
                 /\ record_search(tc)
                 /\ search_results' = Append(search_results,
                                             [id |-> tc.id,
                                              text |-> format_results_for_ai(search(outcome))])
          ELSE UNCHANGED <<searches, history, search_results>>
  /\ tc_index' = tc_index + 1
  /\ UNCHANGED <<mod_pc, messages, response, model_calls>>
  /\ UNCHANGED <<configVars, styleVars, questionVars, uiVars, selectVars, orderVars, clientVars, hatVars, flagVars, runVars, state,
                 speech_count, latest_summary, current_round, current_hat_info>>

\* lines 259-261: an exception leaves the loop: json.loads raises on the
\* arguments of a web_search call, or the search itself raises
SumDispatchFail ==
  /\ pc = "final_streaming"
  /\ mod_pc = "dispatch"
  /\ tc_index < Len(response.tool_calls)
  /\ LET tc == response.tool_calls[tc_index + 1] IN
       /\ tc.name = "web_search"
       /\ \/ tc.arguments = "malformed"
          \/ \E outcome \in SearchOutcomes : search(outcome).raised
  /\ Abort

\* lines 266-295: the assistant turn with all tool calls and one tool turn per
\* search result are appended to the message list; the streaming follow-up
\* call is made without tools
SumFollowCall ==
  /\ pc = "final_streaming"
  /\ mod_pc = "dispatch"
  /\ tc_index = Len(response.tool_calls)
  /\ messages' = messages
                   \o <<ChatMessage("assistant",
                                    [k \in 1..Len(response.tool_calls) |-> response.tool_calls[k].id],
                                    response.content)>>
                   \o [k \in 1..Len(search_results) |->
                         ChatMessage("tool", <<search_results[k].id>>, search_results[k].text)]
  /\ model_calls' = Append(model_calls, [stream |-> TRUE, tools |-> {}, context |-> messages'])
  /\ mod_pc' = "followup"
  /\ UNCHANGED <<response, tc_index, search_results, searches>>
  /\ UNCHANGED <<configVars, styleVars, questionVars, uiVars, selectVars, orderVars, clientVars, hatVars, flagVars, runVars,
                 sessionVars>>

\* lines 296-297 and session.py 434-440: one fragment of the follow-up stream
SumFollowChunk ==
  /\ mod_pc = "followup"
  /\ FinalChunk

\* the follow-up stream raised
SumFollowFail ==
  /\ mod_pc = "followup"
  /\ pc = "final_streaming"
  /\ Abort

\* the generator is exhausted: session.py 442-456
SumEnd ==
  /\ \/ mod_pc \in {"followup", "exhausted"}
     \/ mod_pc = "plain" /\ response.content = <<>>
  /\ FinalEnd

InitSummary == SessionInit([n |-> 1, r |-> 1])
NextSummary ==
  \/ RunStart
  \/ OpeningBegin
  \/ OpeningChunk
  \/ OpeningEnd
  \/ SpeakingOrderBuilt
  \/ MemberBegin
  \/ MemberChunk
  \/ MemberFail
  \/ MemberEnd
  \/ AfterTurn
  \/ FinalBegin
  \/ SumFirstCall
  \/ SumFirstReply
  \/ SumFirstFail
  \/ SumPlainYield
  \/ SumDispatchOne
  \/ SumDispatchFail
  \/ SumFollowCall
  \/ SumFollowChunk
  \/ SumFollowFail
  \/ SumEnd
  \/ Finish
  \/ AbortFinish
SpecSummary == InitSummary /\ [][NextSummary]_vars

\* ------------------------------------------- select_next_speaker specification
\* strings are sequences of characters
Alphabet == {"a", "A", "b", " "}
Texts(maxlen) == UNION {[1..k -> Alphabet] : k \in 0..maxlen}
\* participant names offered as remaining_members
SelectNames == {<<"A", "b">>, <<"b">>, <<"a", "a">>}

\* str.lower()
LowerChar(c) == IF c = "A" THEN "a" ELSE c
Lower(str) == [k \in 1..Len(str) |-> LowerChar(str[k])]

\* str.strip() removes blanks and line breaks at both ends
Whitespace == {" ", "\n"}
RECURSIVE Strip(_)
Strip(str) ==
  IF str = <<>> THEN str
  ELSE IF Head(str) \in Whitespace THEN Strip(Tail(str))
  ELSE IF str[Len(str)] \in Whitespace THEN Strip(SubSeq(str, 1, Len(str) - 1))
  ELSE str

\* a in b
IsSubstring(a, b) ==
  \E k \in 0..(Len(b) - Len(a)) : SubSeq(b, k + 1, k + Len(a)) = a

\* lines 116: member.lower() in selected.lower() or selected.lower() in member.lower()
Matches(member, selected) ==
  \/ IsSubstring(Lower(member), Lower(selected))
  \/ IsSubstring(Lower(selected), Lower(member))

\* mutant of select_next_speaker: without a match the reply itself is returned
select_next_speaker_unvalidated(content, remaining_members) ==
  LET selected == Strip(content)
      hits == {k \in 1..Len(remaining_members) : Matches(remaining_members[k], selected)}
  IN  IF hits # {}
      THEN remaining_members[CHOOSE k \in hits : \A j \in hits : k <= j]
      ELSE selected

\* lines 112-121: the reply is stripped, the first member that matches it is
\* returned, else the first member, else ""
select_next_speaker(content, remaining_members) ==
  LET selected == Strip(content)
      hits == {k \in 1..Len(remaining_members) : Matches(remaining_members[k], selected)}
  IN  IF hits # {}
      THEN remaining_members[CHOOSE k \in hits : \A j \in hits : k <= j]
      ELSE IF remaining_members # <<>> THEN remaining_members[1] ELSE <<>>

\* select_next_speaker is called and awaits the model's reply (lines 88-110)
SelectCall ==
  /\ sel_pc = "idle"
  /\ \E n \in 0..MaxRemaining : \E rem \in [1..n -> SelectNames] : sel_remaining' = rem
  /\ sel_pc' = "awaiting"
  /\ UNCHANGED <<sel_reply, sel_result>>
  /\ UNCHANGED <<configVars, styleVars, questionVars, uiVars, modVars, orderVars, clientVars, hatVars, flagVars, runVars, sessionVars>>

\* the reply arrives and the function returns (lines 112-121)
SelectReturn ==
  /\ sel_pc = "awaiting"
  /\ \E content \in Texts(MaxReplyLen) :
       /\ sel_reply' = content
       /\ sel_result' = select_next_speaker(content, sel_remaining)
  /\ sel_pc' = "returned"
  /\ UNCHANGED sel_remaining
  /\ UNCHANGED <<configVars, styleVars, questionVars, uiVars, modVars, orderVars, clientVars, hatVars, flagVars, runVars, sessionVars>>

InitSelect == SessionInit([n |-> 1, r |-> 1])
NextSelect == SelectCall \/ SelectReturn
SpecSelect == InitSelect /\ [][NextSelect]_vars

\* ------------------------------------------- start_discussion specification
\* topics typed into the form: letters and blanks
Topics == UNION {[1..k -> {"a", " "}] : k \in 0..MaxTopicLen}

\* mutant of TopicMissing: the topic is not stripped before the test
TopicMissingUnstripped(topic) == topic = <<>>

\* `if not topic.strip()`
TopicMissing(topic) == Strip(topic) = <<>>

\* lines 143-167: one member per slot that has a model selected
EnabledCount(slots) == Cardinality({k \in 1..NumSlots : slots[k]})

\* start_discussion, lines 123-202: the form is validated; a rejected form
\* yields its message and returns, an accepted one constructs the Session
start_discussion ==
  /\ ui_pc = "idle"
  /\ \E topic \in Topics : \E slots \in [1..NumSlots -> BOOLEAN] : \E rounds \in 1..MaxTurns :
       /\ EnabledCount(slots) * rounds <= MaxTurns
       /\ ui_topic' = topic
       /\ ui_slots' = slots
       /\ IF TopicMissing(topic)
          THEN /\ ui_out' = "need_topic"
               /\ ui_pc' = "rejected"
               /\ UNCHANGED configVars
          ELSE IF EnabledCount(slots) = 0
               THEN /\ ui_out' = "need_member"
                    /\ ui_pc' = "rejected"
                    /\ UNCHANGED configVars
               ELSE /\ ui_out' = ""
                    /\ ui_pc' = "created"
                    /\ members' = SubSeq(MemberNames, 1, EnabledCount(slots))
                    /\ total_rounds' = rounds
  /\ UNCHANGED <<styleVars, questionVars, modVars, selectVars, orderVars, clientVars, hatVars, flagVars, runVars,
                 sessionVars>>

\* line 209: the handler starts consuming current_session.run()
StartRun ==
  /\ ui_pc = "created"
  /\ RunStart

InitStart == SessionInit([n |-> 0, r |-> 1])
NextStart ==
  \/ start_discussion
  \/ StartRun
  \/ OpeningBegin
  \/ OpeningChunk
  \/ OpeningEnd
SpecStart == InitStart /\ [][NextStart]_vars

\* ------------------------------------------- chat call specification
\* mutant of LoopAttempts: range(max_retries)
LoopAttemptsShort(max) == max

\* range(max_retries + 1): the number of iterations of the retry loop
LoopAttempts(max) == max + 1

\* mutant of ShouldRetry: the last failing attempt backs off too
ShouldRetryAfterLast(att, max) == att <= max

\* `if attempt < max_retries`
ShouldRetry(att, max) == att < max

\* BASE_RETRY_DELAY * (2 ** attempt)
RetryDelay(att) == BASE_RETRY_DELAY * (2 ^ att)

\* sleep(REQUEST_DELAY) stands after the request (and, streaming, after the
\* stream's end) inside the try: it is reached only when nothing was raised
CooldownAfter(outcome) == IF outcome = "ok" THEN 1 ELSE 0

\* the head of the for loop for iteration nxt; when the range is used up the
\* code after the loop runs: `raise last_error` (a TypeError when it is None),
\* or, streaming, `if last_error: raise last_error`
EnterLoop(nxt, max, stream, lasterr) ==
  IF nxt < LoopAttempts(max)
  THEN cl_pc' = "attempting" /\ cl_error' = NoError
  ELSE IF lasterr # NoError
       THEN cl_pc' = "raised" /\ cl_error' = lasterr
       ELSE IF stream
            THEN cl_pc' = "returned" /\ cl_error' = NoError
            ELSE cl_pc' = "raised" /\ cl_error' = [attempt |-> -1, kind |-> "other"]

\* chat(stream, max_retries): the logical call starts
ClientCall ==
  /\ cl_pc = "idle"
  /\ \E s \in BOOLEAN : \E m \in 0..MaxRetries :
       /\ cl_stream' = s
       /\ max_retries' = m
       /\ EnterLoop(0, m, s, NoError)
  /\ attempt' = 0
  /\ last_error' = NoError
  /\ UNCHANGED <<attempts, cl_choices, outcomes, delays, cooldowns, delivered>>
  /\ UNCHANGED <<configVars, styleVars, questionVars, uiVars, modVars, selectVars, orderVars, hatVars, flagVars, runVars, sessionVars>>

\* _chat_with_retry: the request returns a response, then the cooldown is slept
AttemptOk ==
  /\ cl_pc = "attempting"
  /\ ~cl_stream
  /\ attempts' = attempts + 1
  /\ outcomes' = Append(outcomes, "ok")
  /\ \E c \in 0..1 : cl_choices' = c
  /\ cooldowns' = cooldowns + CooldownAfter("ok")
  /\ cl_pc' = "cooling"
  /\ UNCHANGED <<cl_stream, max_retries, attempt, delays, delivered, last_error, cl_error>>
  /\ UNCHANGED <<configVars, styleVars, questionVars, uiVars, modVars, selectVars, orderVars, hatVars, flagVars, runVars, sessionVars>>

\* _stream_chat: the request returns a stream
StreamOpen ==
  /\ cl_pc = "attempting"
  /\ cl_stream
  /\ attempts' = attempts + 1
  /\ cl_pc' = "streaming"
  /\ UNCHANGED <<cl_stream, max_retries, attempt, cl_choices, outcomes, delays, cooldowns,
                 delivered, last_error, cl_error>>
  /\ UNCHANGED <<configVars, styleVars, questionVars, uiVars, modVars, selectVars, orderVars, hatVars, flagVars, runVars, sessionVars>>

\* fragments of the current attempt already handed to the caller
FragmentsOf(att) == Cardinality({k \in 1..Len(delivered) : delivered[k].attempt = att})

\* _stream_chat: a chunk with content is yielded to the caller
StreamFragment ==
  /\ cl_pc = "streaming"
  /\ FragmentsOf(attempt) < MaxAttemptFragments
  /\ delivered' = Append(delivered, [attempt |-> attempt, k |-> FragmentsOf(attempt) + 1])
  /\ UNCHANGED <<cl_pc, cl_stream, max_retries, attempt, attempts, cl_choices, outcomes,
                 delays, cooldowns, last_error, cl_error>>
  /\ UNCHANGED <<configVars, styleVars, questionVars, uiVars, modVars, selectVars, orderVars, hatVars, flagVars, runVars, sessionVars>>

\* _stream_chat: the stream ends, then the cooldown is slept
StreamEnd ==
  /\ cl_pc = "streaming"
  /\ outcomes' = Append(outcomes, "ok")
  /\ cooldowns' = cooldowns + CooldownAfter("ok")
  /\ cl_pc' = "cooling"
  /\ UNCHANGED <<cl_stream, max_retries, attempt, attempts, cl_choices, delays, delivered,
                 last_error, cl_error>>
  /\ UNCHANGED <<configVars, styleVars, questionVars, uiVars, modVars, selectVars, orderVars, hatVars, flagVars, runVars, sessionVars>>

\* after the cooldown: `return self._parse_response(response)`, which reads
\* response.choices[0], or, streaming, `return`
Return ==
  /\ cl_pc = "cooling"
  /\ IF cl_stream \/ cl_choices >= 1
     THEN cl_pc' = "returned" /\ cl_error' = NoError
     ELSE cl_pc' = "raised" /\ cl_error' = [attempt |-> attempt, kind |-> "parse"]
  /\ UNCHANGED <<cl_stream, max_retries, attempt, attempts, cl_choices, outcomes, delays,
                 cooldowns, delivered, last_error>>
  /\ UNCHANGED <<configVars, styleVars, questionVars, uiVars, modVars, selectVars, orderVars, hatVars, flagVars, runVars, sessionVars>>

\* the request, or the iteration of its stream, raises an exception of the
\* given kind; caught says whether the except clause matches it
AttemptFailure(kind, caught) ==
  LET e == [attempt |-> attempt, kind |-> kind] IN
  /\ cl_pc \in {"attempting", "streaming"}
  /\ attempts' = IF cl_pc = "attempting" THEN attempts + 1 ELSE attempts
  /\ outcomes' = Append(outcomes, kind)
  /\ cooldowns' = cooldowns + CooldownAfter(kind)
  /\ IF caught
     THEN /\ last_error' = e
          /\ IF ShouldRetry(attempt, max_retries)
             THEN /\ delays' = Append(delays, RetryDelay(attempt))
                  /\ attempt' = attempt + 1
                  /\ EnterLoop(attempt + 1, max_retries, cl_stream, e)
             ELSE /\ cl_pc' = "raised"
                  /\ cl_error' = e
                  /\ UNCHANGED <<delays, attempt>>
     ELSE /\ cl_pc' = "raised"
          /\ cl_error' = e
          /\ UNCHANGED <<delays, attempt, last_error>>
  /\ UNCHANGED <<cl_stream, max_retries, cl_choices, delivered>>
  /\ UNCHANGED <<configVars, styleVars, questionVars, uiVars, modVars, selectVars, orderVars, hatVars, flagVars, runVars, sessionVars>>

\* mutant of AttemptFailsOther: the except clause catches every exception
AttemptFailsOtherRetried == AttemptFailure("other", TRUE)

\* RateLimitError or APIStatusError
AttemptFailsRetryable == AttemptFailure("retryable", TRUE)

\* any other exception: no except clause matches
AttemptFailsOther == AttemptFailure("other", FALSE)

InitClient == SessionInit([n |-> 1, r |-> 1])
NextClient ==
  \/ ClientCall
  \/ AttemptOk
  \/ StreamOpen
  \/ StreamFragment
  \/ StreamEnd
  \/ Return
  \/ AttemptFailsRetryable
  \/ AttemptFailsOther
SpecClient == InitClient /\ [][NextClient]_vars

\* ------------------------------------------- member turn over the chat client
\* Member.speak's default max_retries, which _member_speak does not override
MemberMaxRetries == 2

\* member.speak, lines 101-107: the streaming chat call of the turn is made
TurnCall ==
  /\ pc = "speaking"
  /\ ClientCall
  /\ cl_stream'
  /\ max_retries' = MemberMaxRetries

\* the provider request of the current attempt returns a stream
TurnOpen ==
  /\ pc = "speaking"
  /\ StreamOpen

\* mutant of TurnFragment: the fragment is put in front of those kept
TurnFragmentPrepends ==
  /\ pc = "speaking"
  /\ cl_pc = "streaming"
  /\ FragmentsOf(attempt) < MaxAttemptFragments
  /\ LET frag == [attempt |-> attempt, k |-> FragmentsOf(attempt) + 1] IN
       /\ delivered' = Append(delivered, frag)
       /\ content_parts' = <<frag>> \o content_parts
       /\ Emit(Event("member", "chunk", speaking_order[i + 1], <<frag>>, TRUE, FALSE,
                     speech_count, current_hat_info))
  /\ UNCHANGED <<cl_pc, cl_stream, max_retries, attempt, attempts, cl_choices, outcomes,
                 delays, cooldowns, last_error, cl_error>>
  /\ UNCHANGED <<configVars, styleVars, questionVars, uiVars, modVars, selectVars, orderVars, hatVars, flagVars,
                 sessionVars, pc, speaking_order, i, speech_succeeded, fragments>>

\* openrouter.py 95-97, member.py 108-109, session.py 294-313: a fragment of
\* the current attempt travels to _member_speak, which keeps it and yields
\* the streaming member event
TurnFragment ==
  /\ pc = "speaking"
  /\ cl_pc = "streaming"
  /\ FragmentsOf(attempt) < MaxAttemptFragments
  /\ LET frag == [attempt |-> attempt, k |-> FragmentsOf(attempt) + 1] IN
       /\ delivered' = Append(delivered, frag)
       /\ content_parts' = Append(content_parts, frag)
       /\ Emit(Event("member", "chunk", speaking_order[i + 1], <<frag>>, TRUE, FALSE,
                     speech_count, current_hat_info))
  /\ UNCHANGED <<cl_pc, cl_stream, max_retries, attempt, attempts, cl_choices, outcomes,
                 delays, cooldowns, last_error, cl_error>>
  /\ UNCHANGED <<configVars, styleVars, questionVars, uiVars, modVars, selectVars, orderVars, hatVars, flagVars,
                 sessionVars, pc, speaking_order, i, speech_succeeded, fragments>>

\* the attempt fails with RateLimitError or APIStatusError: inside the client
\* it is retried after the backoff, or raised when no retry is left
TurnRetry ==
  /\ pc = "speaking"
  /\ AttemptFailsRetryable

\* the attempt fails with another exception, which leaves the client
TurnOtherFail ==
  /\ pc = "speaking"
  /\ AttemptFailsOther

\* the stream of the attempt ends; the cooldown is slept
TurnStreamEnd ==
  /\ pc = "speaking"
  /\ StreamEnd

\* the client's generator returns
TurnReturn ==
  /\ pc = "speaking"
  /\ Return

\* session.py 314-322: the exception of the chat call reaches _member_speak
TurnFail ==
  /\ cl_pc = "raised"
  /\ MemberFail

\* session.py 324-344: the stream is exhausted, the turn is committed
TurnEnd ==
  /\ cl_pc = "returned"
  /\ MemberEnd

InitTurn == SessionInit([n |-> 1, r |-> 1])
NextTurn ==
  \/ RunStart
  \/ OpeningBegin
  \/ OpeningChunk
  \/ OpeningEnd
  \/ SpeakingOrderBuilt
  \/ MemberBegin
  \/ TurnCall
  \/ TurnOpen
  \/ TurnFragment
  \/ TurnRetry
  \/ TurnOtherFail
  \/ TurnStreamEnd
  \/ TurnReturn
  \/ TurnFail
  \/ TurnEnd
  \/ AfterTurn
  \/ FinalBegin
  \/ FinalChunk
  \/ FinalEnd
  \/ FinalFail
  \/ Finish
  \/ AbortFinish
SpecTurn == InitTurn /\ [][NextTurn]_vars

\* ------------------------------------------- re-run specification
\* run() is called again on a Session whose earlier run has ended
RunAgain ==
  /\ pc = "done"
  /\ Cardinality({k \in 1..Len(events) : events[k].tag = "start"}) < MaxRuns
  /\ run_start

\* one participant, two rounds: a run that ends has reached round 2, used
\* hats and stored a running summary; it ends finished, or in error when the
\* final summary fails
InitRerun == SessionInit([n |-> 1, r |-> 2])
NextRerun ==
  \/ RunStart
  \/ RunAgain
  \/ OpeningBegin
  \/ OpeningChunk
  \/ OpeningEnd
  \/ SpeakingOrderBuilt
  \/ MemberBegin
  \/ MemberChunk
  \/ MemberEnd
  \/ AfterTurn
  \/ SummaryChunk
  \/ SummaryEnd
  \/ AfterSummary
  \/ FinalBegin
  \/ FinalChunk
  \/ FinalEnd
  \/ FinalFail
  \/ Finish
  \/ AbortFinish
SpecRerun == InitRerun /\ [][NextRerun]_vars

\* ------------------------------------------- long-run specification
\* one participant and enough rounds for the hat pool to run empty and be
\* refilled; streams deliver no fragment and no request is made, a turn or
\* the final summary may fail
InitLong == SessionInit([n |-> 1, r |-> MaxLongRounds])
NextLong ==
  \/ RunStart
  \/ OpeningBegin
  \/ OpeningEnd
  \/ SpeakingOrderBuilt
  \/ MemberBegin
  \/ MemberFail
  \/ MemberEnd
  \/ AfterTurn
  \/ SummaryEnd
  \/ AfterSummary
  \/ FinalBegin
  \/ FinalEnd
  \/ FinalFail
  \/ Finish
  \/ AbortFinish
SpecLong == InitLong /\ [][NextLong]_vars

\* ------------------------------------------- summary style specification
\* mutant of StyleInstruction: the early rounds are the first half of the total
StyleInstructionByTotal(round, total) ==
  IF 2 * round <= total + 1 THEN "escalate" ELSE "integrate"

\* `is_early_round = current_round <= 2` and the two style texts
StyleInstruction(round, total) ==
  IF round <= 2 THEN "escalate" ELSE "integrate"

\* session.py 361: `self._current_hat_info or {"emoji": "", "name": "", "color": ""}`
SpeakerHat(hat_info) == IF hat_info = NoHat THEN "blank" ELSE hat_info

\* get_provocative_summary_prompt: the prompt's parts
get_provocative_summary_prompt(args) ==
  [kind |-> "provocative",
   style |-> StyleInstruction(args.current_round, args.total_rounds),
   speaker_name |-> args.speaker_name,
   speaker_hat |-> args.speaker_hat,
   speaker_content |-> args.speaker_content,
   context |-> args.previous_summary,
   hat_section |-> args.hat_distribution,
   current_round |-> args.current_round,
   total_rounds |-> args.total_rounds]

\* get_after_speech_summary_prompt: no hat, no round, no style
get_after_speech_summary_prompt(args) ==
  [kind |-> "plain",
   style |-> "",
   speaker_name |-> args.speaker_name,
   speaker_hat |-> "",
   speaker_content |-> args.speaker_content,
   context |-> args.previous_summary,
   hat_section |-> "",
   current_round |-> 0,
   total_rounds |-> 0]

\* the arguments _after_speech_summary passes: any speaker and speech, the
\* hat of the turn (or none), any running summary, a round within the total,
\* any hat distribution
StyleArgs ==
  {[topic |-> "topic", speaker_name |-> n, speaker_content |-> c,
    speaker_hat |-> SpeakerHat(h), previous_summary |-> p,
    current_round |-> r, total_rounds |-> t, hat_distribution |-> d] :
     n \in {MemberNames[1], MemberNames[2]}, c \in {"speech1", "speech2"},
     h \in {"white", "black", NoHat}, p \in {"", "summary"},
     t \in 1..MaxStyleRounds, r \in 1..MaxStyleRounds, d \in {"dist1", "dist2"}}

\* _after_speech_summary lines 371-380 call Moderator.after_speech_summary
StyleCall ==
  /\ st_pc = "idle"
  /\ \E args \in StyleArgs :
       /\ args.current_round <= args.total_rounds
       /\ st_args' = args
  /\ st_pc' = "called"
  /\ UNCHANGED st_prompt
  /\ UNCHANGED <<configVars, questionVars, uiVars, modVars, selectVars, orderVars, clientVars,
                 hatVars, flagVars, runVars, sessionVars>>

\* after_speech_summary lines 177-196: `if speaker_hat` chooses the prompt; the
\* dict the session passes is never empty
StylePrompt ==
  /\ st_pc = "called"
  /\ st_prompt' = IF st_args.speaker_hat # ""
                   THEN get_provocative_summary_prompt(st_args)
                   ELSE get_after_speech_summary_prompt(st_args)
  /\ st_pc' = "prompted"
  /\ UNCHANGED st_args
  /\ UNCHANGED <<configVars, questionVars, uiVars, modVars, selectVars, orderVars, clientVars,
                 hatVars, flagVars, runVars, sessionVars>>

InitStyle == SessionInit([n |-> 1, r |-> 1])
NextStyle == StyleCall \/ StylePrompt
SpecStyle == InitStyle /\ [][NextStyle]_vars

\* ------------------------------------------- _extract_question specification
\* the ASCII question mark and the full-width one (U+FF1F)
QuestionMarks == {"?", "fw?"}
\* speech texts: a letter, the two question marks, a line break, a blank
SpeechChars == {"a", "?", "fw?", "\n", " "}
SpeechTexts == UNION {[1..k -> SpeechChars] : k \in 0..MaxSpeechLen}

\* re.split(sep, str) for a separator that matches the empty string after
\* every character of seps (the lookbehind) or the one character of seps
\* itself: keep says whether the matched character stays in the piece
RECURSIVE Split(_, _, _)
Split(str, seps, keep) ==
  LET hits == {k \in 1..Len(str) : str[k] \in seps} IN
  IF hits = {}
  THEN <<str>>
  ELSE LET k == CHOOSE h \in hits : \A j \in hits : h <= j
       IN  <<SubSeq(str, 1, IF keep THEN k ELSE k - 1)>>
             \o Split(SubSeq(str, k + 1, Len(str)), seps, keep)

\* s.endswith('?') or s.endswith('\uff1f')
EndsWithMark(str) == str # <<>> /\ str[Len(str)] \in QuestionMarks

\* the list comprehension of line 249
RECURSIVE Questions(_)
Questions(sentences) ==
  IF sentences = <<>> THEN <<>>
  ELSE LET st == Strip(Head(sentences))
       IN  (IF st # <<>> /\ EndsWithMark(st) THEN <<st>> ELSE <<>>)
             \o Questions(Tail(sentences))

\* mutant of extract_question: the whole last question, all its lines
extract_question_all_lines(content) ==
  LET questions == Questions(Split(content, QuestionMarks, TRUE))
  IN  IF questions # <<>>
      THEN Strip(questions[Len(questions)])
      ELSE <<>>

\* _extract_question, lines 248-258
extract_question(content) ==
  LET sentences == Split(content, QuestionMarks, TRUE)
      questions == Questions(sentences)
  IN  IF questions # <<>>
      THEN LET last_q == questions[Len(questions)]
               lines == Split(Strip(last_q), {"\n"}, FALSE)
           IN  Strip(lines[Len(lines)])
      ELSE <<>>

\* _get_previous_speaker_info line 240 calls it with the last speech
ExtractCall ==
  /\ q_pc = "idle"
  /\ \E content \in SpeechTexts : q_text' = content
  /\ q_pc' = "called"
  /\ UNCHANGED q_result
  /\ UNCHANGED <<configVars, styleVars, uiVars, modVars, selectVars, orderVars, clientVars,
                 hatVars, flagVars, runVars, sessionVars>>

\* the function returns
ExtractReturn ==
  /\ q_pc = "called"
  /\ q_result' = extract_question(q_text)
  /\ q_pc' = "returned"
  /\ UNCHANGED q_text
  /\ UNCHANGED <<configVars, styleVars, uiVars, modVars, selectVars, orderVars, clientVars,
                 hatVars, flagVars, runVars, sessionVars>>

InitQuestion == SessionInit([n |-> 1, r |-> 1])
NextQuestion == ExtractCall \/ ExtractReturn
SpecQuestion == InitQuestion /\ [][NextQuestion]_vars

\* ------------------------------------------------- vocabulary of the claims
Last(s) == s[Len(s)]

CountEvents(tag) == Cardinality({k \in 1..Len(events) : events[k].tag = tag})

CountEntries(mtype) == Cardinality({k \in 1..Len(history) : history[k].message_type = mtype})

\* run()'s exception handler has yielded its diagnostic event
Aborted == \E k \in 1..Len(events) : events[k].tag = "error"

FlagRaised == stop_requested \/ summary_requested

\* the content of the last RoundSummary entry of history, or the empty text
LastRoundSummary ==
  LET idx == {k \in 1..Len(history) : history[k].message_type = "round_summary"}
  IN  IF idx = {} THEN <<>>
      ELSE history[CHOOSE k \in idx : \A j \in idx : j <= k].content

\* final member events and warning events of turn idx
MemberFinals(idx) ==
  Cardinality({k \in 1..Len(events) : /\ events[k].event_type = "member"
                                      /\ events[k].tag = "final"
                                      /\ events[k].speech_index = idx})
TurnWarnings(idx) ==
  Cardinality({k \in 1..Len(events) : /\ events[k].tag = "warning"
                                      /\ events[k].speech_index = idx})
\* turn idx has started and is over
TurnEnded(idx) ==
  \/ idx < speech_count
  \/ idx = speech_count /\ pc \notin {"turn_started", "speaking"}

\* ------------------------------------------------------------------ claims

\* C1 (as claimed): a run that has ended with a stop or summarize-now flag raised
\* during it, and without an escaping exception, has appended a FinalSummary
\* entry and reached Finished.
C1_FlagLeadsToFinalSummary ==
  (pc = "done" /\ FlagRaised /\ ~Aborted) =>
    /\ state = "finished"
    /\ history # <<>>
    /\ Last(history).message_type = "final_summary"

\* C2 (as claimed): the first Speech entry of history carries a role of the
\* restricted first-speaker subset.
C2_FirstSpeechRestricted ==
  \A k \in 1..Len(history) :
    (/\ history[k].message_type = "speech"
     /\ \A j \in 1..(k - 1) : history[j].message_type # "speech")
    => InSeq(history[k].hat_color, FIRST_SPEAKER_HATS)

\* C3: the step in which a participant's call fails terminally appends nothing to
\* history and yields exactly one event, a system warning; warnings are yielded by
\* no other step; and the step run() takes after a failed turn (no flag raised, a
\* speaker left in the order) starts the next scheduled speaker's turn.
C3_FailedTurnContained ==
  [][/\ (pc = "speaking" /\ pc' = "turn_done" /\ ~speech_succeeded') =>
          /\ history' = history
          /\ Len(events') = Len(events) + 1
          /\ SubSeq(events', 1, Len(events)) = events
          /\ Last(events').event_type = "system"
          /\ Last(events').tag = "warning"
     /\ (Len(events') > Len(events) /\ Last(events').tag = "warning") =>
          (pc = "speaking" /\ pc' = "turn_done" /\ Len(events') = Len(events) + 1)
     /\ (/\ pc = "turn_done" /\ pc' # "turn_done"
         /\ ~speech_succeeded
         /\ ~FlagRaised
         /\ i + 1 < Len(speaking_order)) =>
          /\ pc' = "turn_started"
          /\ i' = i + 1
          /\ speech_count' = speech_count + 1
          /\ history' = history
          /\ Last(events').tag = "speech_start"
          /\ Last(events').speaker_name = speaking_order[i + 2]
    ]_vars

\* C3 witness: the second turn has started after a first turn that failed once a
\* fragment had been emitted, and history holds no Speech entry.
C3_Witness ==
  /\ pc = "turn_started"
  /\ speech_count = 2
  /\ CountEntries("speech") = 0
  /\ \E k \in 2..Len(events) :
       /\ events[k].tag = "warning" /\ events[k].speech_index = 1
       /\ events[k - 1].tag = "chunk" /\ events[k - 1].event_type = "member"

\* C4: every step leaves history unchanged or appends exactly one entry at its end.
C4_HistoryAppendOnly ==
  [][\/ history' = history
     \/ /\ Len(history') = Len(history) + 1
        /\ SubSeq(history', 1, Len(history)) = history
    ]_vars

\* C4 witness: a history of three entries in a run one of whose turns failed.
C4_Witness ==
  /\ Len(history) >= 3
  /\ CountEvents("warning") >= 1

\* C5: when the state is Finished, history holds exactly one FinalSummary entry
\* and it is the last entry.
C5_OneFinalSummary ==
  state = "finished" =>
    /\ CountEntries("final_summary") = 1
    /\ Last(history).message_type = "final_summary"

\* C5 witness: a finished run whose history holds a Speech entry too.
C5_Witness ==
  /\ state = "finished"
  /\ CountEntries("speech") >= 1

\* C6 (as claimed): the state changes only along Idle->Running,
\* Running->Summarizing, Summarizing->Finished or Running->Idle.
C6_TransitionsAsClaimed ==
  [][state' # state =>
       <<state, state'>> \in {<<"idle", "running">>, <<"running", "summarizing">>,
                              <<"summarizing", "finished">>, <<"running", "idle">>}
    ]_vars

\* C6 (amended): the state changes only along Idle->Running, Running->Summarizing,
\* Summarizing->Finished, or Running->Idle or Summarizing->Idle on an
\* unrecoverable error.
C6_Transitions ==
  [][state' # state =>
       <<state, state'>> \in {<<"idle", "running">>, <<"running", "summarizing">>,
                              <<"summarizing", "finished">>, <<"running", "idle">>,
                              <<"summarizing", "idle">>}
    ]_vars

\* C6 witness: a run aborted to Idle by an exception of the final summary.
C6_Witness ==
  /\ pc = "done"
  /\ state = "idle"
  /\ CountEvents("final_notice") = 1

\* C7: a run ended by an escaping exception of the opening, an after-speech
\* summary or the final summary has yielded exactly one diagnostic event, as its
\* last event, and is Idle; neither the handler's event nor its state change
\* touches history.
C7_AbortToIdle ==
  [][/\ (pc' = "done" /\ Aborted') =>
          /\ state' = "idle"
          /\ CountEvents("error")' = 1
          /\ Last(events').tag = "error"
          /\ Last(events').event_type = "system"
     /\ (pc' = "aborting" \/ pc = "aborting") => history' = history
     /\ Aborted' => pc' \in {"aborting", "done"}
    ]_vars

\* C7 witness: a run aborted by its after-speech summary, with the Opening and
\* Speech entries still in history.
C7_Witness ==
  /\ pc = "done"
  /\ state = "idle"
  /\ CountEvents("final_notice") = 0
  /\ Len(history) = 2
  /\ history[2].message_type = "speech"

\* C8 (as claimed): no stream that has started is cut short by a flag: in a run
\* that has ended, every stream begun was consumed to its end (final event) or
\* failed by itself (warning or diagnostic event), and the Opening entry was
\* appended unless the opening itself failed.
C8_NoStreamCutShort ==
  pc = "done" =>
    /\ CountEvents("begin") =
         CountEvents("final") + CountEvents("warning") + CountEvents("error")
    /\ (CountEntries("opening") = 1 \/ (Aborted /\ history = <<>>))

\* C9 (as claimed): raising stop and raising summarize-now are interchangeable: at
\* every checkpoint the decision run() takes is the same when the values of the
\* two flags are exchanged.
C9_FlagsInterchangeable ==
  /\ pc \in {"opening", "opening_final"} =>
       OpeningFlag(stop_requested, summary_requested)
         = OpeningFlag(summary_requested, stop_requested)
  /\ pc \in {"opening_final", "turn_done", "summary_done"} =>
       LoopFlag(stop_requested, summary_requested)
         = LoopFlag(summary_requested, stop_requested)

\* only the first call since the reset may have asked for a first-speaker hat
OnlyFirstCallRestricted == \A k \in 2..Len(hat_log) : ~hat_log[k].first

\* C10: from a fresh allocator, with is_first_speaker false in all calls but
\* possibly the first, the first five assign_hat results are pairwise different
\* (five calls return each of the five roles once; a role repeats only later).
C10_FiveDistinct ==
  OnlyFirstCallRestricted =>
    /\ \A j, k \in 1..Len(hat_log) :
         (j < k /\ k <= Len(MEMBER_HATS)) => hat_log[j].hat # hat_log[k].hat
    /\ Len(hat_log) >= Len(MEMBER_HATS) =>
         {hat_log[k].hat : k \in 1..Len(MEMBER_HATS)} = HatColor

\* C10 witness: six calls, the first for a first speaker, the sixth repeating a role.
C10_Witness ==
  /\ Len(hat_log) = 6
  /\ OnlyFirstCallRestricted
  /\ hat_log[1].first
  /\ hat_log[6].hat = hat_log[1].hat

\* C11: at every point after a reset(), the allocator and a newly constructed
\* allocator that received the same calls offer the same candidates for either
\* kind of assign_hat call, and report the same unused hats and usage counts.
C11_ResetAsFresh ==
  /\ \A f \in BOOLEAN :
       CandidatesFor(available_hats, f) = CandidatesFor(fresh_hats, f)
  /\ hat_counts = fresh_counts
  /\ get_unused_hats = UnusedHats(fresh_counts)
  /\ get_distribution_summary(hat_counts) = get_distribution_summary(fresh_counts)

\* C11 witness: right after a reset() the pool is full while a new allocator's
\* pool is still empty.
C11_Witness ==
  /\ hat_log = <<>>
  /\ available_hats = MEMBER_HATS
  /\ fresh_hats = <<>>

\* C12: in every reachable allocator state a first-speaker call has a candidate,
\* every candidate is WHITE or GREEN, and every first-speaker call made so far
\* returned WHITE or GREEN.
C12_FirstAlwaysRestricted ==
  /\ CandidatesFor(available_hats, TRUE) # <<>>
  /\ Range(CandidatesFor(available_hats, TRUE)) \subseteq Range(FIRST_SPEAKER_HATS)
  /\ \A k \in 1..Len(hat_log) :
       hat_log[k].first => InSeq(hat_log[k].hat, FIRST_SPEAKER_HATS)

\* C12 witness: a first-speaker call served after WHITE and GREEN had both left
\* the pool, which then held no restricted role.
C12_Witness ==
  /\ Len(hat_log) = 3
  /\ {hat_log[1].hat, hat_log[2].hat} = Range(FIRST_SPEAKER_HATS)
  /\ hat_log[3].first

\* C13: a logical chat call, streaming or not, makes at least one and at most
\* max_retries + 1 provider requests; when every request fails with a
\* retryable error the call has made max_retries + 1 of them and raises the
\* error of the last one.
C13_AttemptsBounded ==
  /\ attempts <= max_retries + 1
  /\ cl_pc \in {"cooling", "returned", "raised"} => attempts >= 1
  /\ (/\ cl_pc = "raised"
      /\ \A k \in 1..Len(outcomes) : outcomes[k] = "retryable")
     => /\ attempts = max_retries + 1
        /\ Len(outcomes) = attempts
        /\ cl_error = [attempt |-> max_retries, kind |-> "retryable"]
        /\ cl_error = last_error
  /\ (/\ Len(outcomes) = max_retries + 1
      /\ \A k \in 1..Len(outcomes) : outcomes[k] = "retryable")
     => cl_pc = "raised"

C13_Witness ==
  /\ cl_pc = "raised"
  /\ cl_stream
  /\ max_retries = 2
  /\ outcomes = <<"retryable", "retryable", "retryable">>
  /\ delivered # <<>>

\* C14: an exception of the provider request that is neither RateLimitError
\* nor APIStatusError ends the call on the attempt where it occurs: it is the
\* exception the call raises, no request follows it and no backoff is slept
\* for it, whatever max_retries is.
C14_OtherFailurePropagates ==
  \A k \in 1..Len(outcomes) :
    outcomes[k] = "other"
    => /\ k = Len(outcomes)
       /\ attempts = k
       /\ cl_pc = "raised"
       /\ cl_error = [attempt |-> k - 1, kind |-> "other"]
       /\ Len(delays) = k - 1

C14_Witness ==
  /\ outcomes = <<"retryable", "other">>
  /\ max_retries = 2
  /\ cl_pc = "raised"

\* C15: a call that returns has slept the cooldown exactly once, after its
\* successful request; a call that raises has slept no cooldown.
C15_CooldownOnlyOnSuccess ==
  /\ cl_pc = "returned" => cooldowns = 1
  /\ cl_pc = "raised" => cooldowns = 0
  /\ cooldowns >= 1 => (outcomes # <<>> /\ Last(outcomes) = "ok")
  /\ cooldowns <= 1

\* C16: in every run the speech counter never exceeds participants x rounds,
\* and the number of speech entries in history never exceeds the counter.
C16_TurnsBounded ==
  /\ speech_count <= Len(members) * total_rounds
  /\ CountEntries("speech") <= speech_count

C16_Witness ==
  /\ pc = "done"
  /\ speech_count = 2
  /\ speech_count = Len(members) * total_rounds
  /\ CountEntries("speech") = 2

\* the r-th block of `participants` consecutive entries of the order
Block(order, r) == SubSeq(order, (r - 1) * Len(members) + 1, r * Len(members))
\* a and b hold the same elements the same number of times
IsPermutation(a, b) ==
  /\ Len(a) = Len(b)
  /\ \A m \in Range(a) \cup Range(b) :
       Cardinality({k \in 1..Len(a) : a[k] = m}) = Cardinality({k \in 1..Len(b) : b[k] = m})

\* C17: the speaking order holds participants entries per round added, so
\* participants x rounds when built; every block of `participants`
\* consecutive entries is a permutation of the participants, and a round's
\* shuffle can produce every permutation, as the run model's Orders assumes.
C17_OrderIsRoundsOfPermutations ==
  /\ Len(speaking_order) = Len(members) * round_num
  /\ \A r \in 1..round_num : IsPermutation(Block(speaking_order, r), members)
  /\ round_num = total_rounds => Len(speaking_order) = Len(members) * total_rounds
  /\ Shuffle(members) = Perms(Range(members))

\* the same participant closes the first round and opens the second
C17_Witness ==
  /\ round_num = total_rounds
  /\ total_rounds = 2
  /\ Len(members) = 3
  /\ speaking_order[3] = speaking_order[4]

\* C18: for every reply and every non-empty remaining_members list,
\* select_next_speaker returns an element of the list; when no element matches
\* the stripped reply case-insensitively (neither contains the other), it
\* returns the first element.
C18_SelectsARemainingMember ==
  (sel_pc = "returned" /\ sel_remaining # <<>>)
  => /\ InSeq(sel_result, sel_remaining)
     /\ (\A k \in 1..Len(sel_remaining) : ~Matches(sel_remaining[k], Strip(sel_reply)))
        => sel_result = sel_remaining[1]

\* an unrelated reply: no candidate matches, the first of two is returned
C18_Witness ==
  /\ sel_pc = "returned"
  /\ Len(sel_remaining) = 2
  /\ sel_remaining[1] # sel_remaining[2]
  /\ Strip(sel_reply) # <<>>
  /\ \A k \in 1..2 : ~Matches(sel_remaining[k], Strip(sel_reply))
  /\ sel_result = sel_remaining[1]

\* the final summary has received the reply of its first model call
ReplyReceived == mod_pc \notin {"idle", "first_call"}
\* the final summary ran to its end and its entry was appended
SummaryCompleted == pc = "final_done" \/ (pc = "done" /\ state = "finished")

\* C19: a final summary makes at most two model calls: first a non-streaming
\* one offering exactly the web_search tool, then at most one streaming
\* follow-up without tools, made only when the first reply carries tool
\* calls and by every summary that completes after such a reply; each tool
\* call is dispatched at most once; a reply without tool calls leads to no
\* second call and no search, and its content is the whole summary.
C19_OneToolRoundTrip ==
  /\ Len(model_calls) <= 2
  /\ Len(model_calls) >= 1
     => (~model_calls[1].stream /\ model_calls[1].tools = {"web_search"})
  /\ Len(model_calls) = 2
     => /\ model_calls[2].stream
        /\ model_calls[2].tools = {}
        /\ ReplyReceived
        /\ response.tool_calls # <<>>
  /\ (SummaryCompleted /\ response.tool_calls # <<>>) => Len(model_calls) = 2
  /\ Len(searches) <= Len(response.tool_calls)
  /\ \A j, k \in 1..Len(searches) : searches[j] = searches[k] => j = k
  /\ (ReplyReceived /\ response.tool_calls = <<>>)
     => /\ Len(model_calls) = 1
        /\ searches = <<>>
        /\ (SummaryCompleted => Last(history).content = response.content)

\* a completed summary whose first reply carried two tool calls, one of them
\* a web search
C19_Witness ==
  /\ SummaryCompleted
  /\ Len(response.tool_calls) = 2
  /\ Len(searches) = 1
  /\ Len(model_calls) = 2

\* the history as it stood when the final summary's moderator call started:
\* the entries that are not the final summary's own
HistoryBefore == SelectSeq(history, LAMBDA m : m.message_type # "final_summary")

\* C20: tool calls and tool results go to the call-local message list only:
\* history never holds a search-result entry, the final summary changes no
\* existing entry and appends exactly one entry, of type final_summary, when
\* it completes, and nothing before.
C20_HistoryOnlyGainsFinalSummary ==
  /\ [](\A k \in 1..Len(history) : history[k].message_type # "search_result")
  /\ [](SummaryCompleted => CountEntries("final_summary") = 1)
  /\ [][pc = "final_streaming"
        => IF pc' = "final_done"
           THEN /\ Len(history') = Len(history) + 1
                /\ SubSeq(history', 1, Len(history)) = history
                /\ Last(history').message_type = "final_summary"
           ELSE history' = history]_vars

\* a completed summary that searched: the tool turns are in the message list
C20_Witness ==
  /\ SummaryCompleted
  /\ searches # <<>>
  /\ \E k \in 1..Len(messages) : messages[k].role = "tool"
  /\ Len(history) >= 2
  /\ Last(history).message_type = "final_summary"

\* C21: a form with an empty or all-blank topic, or with no member selected,
\* starts no run: no Session is run, the state stays idle, no event is
\* yielded by a run, no provider stream is opened (pc stays idle) and history
\* stays empty.
C21_InvalidFormStartsNothing ==
  (ui_pc # "idle" /\ (Strip(ui_topic) = <<>> \/ \A k \in 1..NumSlots : ~ui_slots[k]))
  => /\ ui_pc = "rejected"
     /\ ui_out \in {"need_topic", "need_member"}
     /\ state = "idle"
     /\ pc = "idle"
     /\ events = <<>>
     /\ history = <<>>
     /\ fragments = 0

\* an all-blank topic with members selected was rejected
C21_Witness ==
  /\ ui_pc = "rejected"
  /\ ui_topic = <<" ", " ">>
  /\ \E k \in 1..NumSlots : ui_slots[k]
  /\ state = "idle"

\* an attempt of the turn's chat call failed
SomeAttemptFailed == \E k \in 1..Len(outcomes) : outcomes[k] # "ok"
\* the participant's turn is over
TurnOver == pc \notin {"idle", "started", "opening", "opening_final", "turn_started", "speaking"}

\* C22: every failure during a run is reported by an event: once a turn in
\* which a provider attempt failed is over, the event stream holds a warning
\* or error event.
C22_EveryFailureReported ==
  (TurnOver /\ SomeAttemptFailed)
  => CountEvents("warning") + CountEvents("error") >= 1

\* C23: search returns every failure of the search client, a missing API key
\* included, as a result with an error and empty answer and results; the
\* final summary is aborted in its dispatch loop only by malformed arguments,
\* never by a search; and the follow-up call's context holds, for every
\* search made, a tool turn with its text, the failure text for a failed one.
C23_SearchNeverRaises ==
  /\ \A outcome \in SearchOutcomes \ {"ok"} :
       search(outcome) = [raised |-> FALSE, error |-> TRUE, answer |-> "", results |-> <<>>]
  /\ \A outcome \in SearchOutcomes : ~search(outcome).raised
  /\ (pc = "aborting" /\ mod_pc = "dispatch")
     => response.tool_calls[tc_index + 1].arguments = "malformed"
  /\ Len(search_results) = Len(searches)
  /\ Len(model_calls) = 2
     => \A k \in 1..Len(search_results) :
          \E j \in 1..Len(model_calls[2].context) :
            model_calls[2].context[j] =
              ChatMessage("tool", <<search_results[k].id>>, search_results[k].text)

\* a summary completed after a failed search whose text went to the follow-up
C23_Witness ==
  /\ SummaryCompleted
  /\ Len(model_calls) = 2
  /\ \E j \in 1..Len(model_calls[2].context) :
       /\ model_calls[2].context[j].role = "tool"
       /\ model_calls[2].context[j].content = "search_failed"

\* C24: while a participant's turn is in progress a raised flag changes
\* nothing: the turn goes on to its end or its failure, and a successful end
\* appends the Speech entry; the step run() takes after a turn with a flag
\* raised starts the final summary, with no after-speech summary and no
\* further turn.
C24_FlagWaitsForTurn ==
  [][/\ (pc \in {"turn_started", "speaking"} /\ FlagRaised /\ pc' # pc)
        => /\ pc' \in {"speaking", "turn_done"}
           /\ pc' = "turn_done" =>
                \/ /\ speech_succeeded'
                   /\ Len(history') = Len(history) + 1
                   /\ Last(history').message_type = "speech"
                   /\ Last(history').speaker_name = speaking_order[i + 1]
                   /\ Last(history').content = content_parts
                \/ /\ ~speech_succeeded'
                   /\ history' = history
                   /\ Last(events').tag = "warning"
     /\ (pc = "turn_done" /\ FlagRaised /\ pc' # pc)
        => /\ pc' = "final_started"
           /\ state' = "summarizing"
           /\ history' = history
           /\ speech_count' = speech_count
           /\ Last(events').tag = "final_notice"
    ]_vars

\* the final summary starts after a successful turn, with a flag raised and a
\* further turn still scheduled
C24_Witness ==
  /\ pc = "final_started"
  /\ FlagRaised
  /\ speech_succeeded
  /\ i + 1 < Len(speaking_order)
  /\ history # <<>>
  /\ Last(history).message_type = "speech"

\* C25: with no flag raised, the step run() takes after scheduled turn i
\* starts an after-speech summary exactly when the turn succeeded and is not
\* the last scheduled one; a round_summary entry is appended only by the end
\* of a summary so started, and a summary started ends with that entry unless
\* its call fails, which ends the run.
C25_SummaryIffSucceededNonFinal ==
  [][/\ (pc = "turn_done" /\ ~FlagRaised /\ pc' # pc)
        => /\ pc' = "summarizing" <=> (speech_succeeded /\ i < Len(speaking_order) - 1)
           /\ pc' \in {"summarizing", "turn_started", "final_started"}
           /\ history' = history
     /\ pc' = "summarizing" /\ pc # "summarizing"
        => (pc = "turn_done" /\ speech_succeeded /\ i < Len(speaking_order) - 1)
     /\ (CountEntries("round_summary")' # CountEntries("round_summary"))
        => /\ pc = "summarizing"
           /\ pc' = "summary_done"
           /\ history' = Append(history, Last(history'))
           /\ Last(history').message_type = "round_summary"
           /\ Last(history').content = content_parts
     /\ (pc = "summarizing" /\ pc' # pc) => pc' \in {"summary_done", "aborting"}
     /\ (pc = "summarizing" /\ pc' = "summary_done")
        => CountEntries("round_summary")' = CountEntries("round_summary") + 1
    ]_vars

\* no flag raised: a summary was appended after a successful first turn, the
\* second turn failed, and the run went to its final summary without another
C25_Witness ==
  /\ ~FlagRaised
  /\ pc = "final_started"
  /\ i = 1
  /\ Len(speaking_order) = 2
  /\ ~speech_succeeded
  /\ CountEntries("round_summary") = 1
  /\ CountEntries("speech") = 1

\* the streaming member events of turn idx that carry a fragment
TurnChunks(idx) ==
  SelectSeq(events, LAMBDA e : e.event_type = "member" /\ e.tag = "chunk" /\ e.speech_index = idx)
\* the contents of a sequence of events, concatenated in order
RECURSIVE ConcatContents(_)
ConcatContents(es) ==
  IF es = <<>> THEN <<>> ELSE Head(es).content \o ConcatContents(Tail(es))
\* the role drawn for turn idx, as announced by its system event
AssignedHat(idx) ==
  LET starts == SelectSeq(events, LAMBDA e : e.tag = "speech_start" /\ e.speech_index = idx)
  IN  starts[1].hat

\* C26: while a turn streams, the fragments kept are those of its streaming
\* member events, in order; when it has succeeded, the entry appended is the
\* Speech entry with that concatenation as content, the scheduled participant
\* as speaker and the role assigned to the turn, which is the role carried by
\* every member event of the turn.
C26_SpeechIsItsFragments ==
  /\ pc = "speaking" => content_parts = ConcatContents(TurnChunks(speech_count))
  /\ (pc = "turn_done" /\ speech_succeeded)
     => /\ Last(history) = Message("member", ConcatContents(TurnChunks(speech_count)),
                                   speaking_order[i + 1], "speech", AssignedHat(speech_count))
        /\ Last(events).tag = "final"
        /\ Last(events).content = Last(history).content
        /\ \A k \in 1..Len(events) :
             (events[k].event_type = "member" /\ events[k].speech_index = speech_count)
             => /\ events[k].hat = AssignedHat(speech_count)
                /\ events[k].speaker_name = speaking_order[i + 1]

\* a committed turn of three fragments
C26_Witness ==
  /\ pc = "turn_done"
  /\ speech_succeeded
  /\ Len(Last(history).content) = 3
  /\ Len(TurnChunks(speech_count)) = 3

\* C27: in the state a run starts in, whatever the earlier run left behind,
\* the hat pool holds all five hats, every usage count is 0, the round
\* counter is 1 and the running summary is empty.
C27_RunStartsReset ==
  pc = "started"
  => /\ available_hats = MEMBER_HATS
     /\ Range(available_hats) = HatColor
     /\ Len(available_hats) = 5
     /\ \A h \in HatColor : hat_counts[h] = 0
     /\ current_round = 1
     /\ latest_summary = <<>>

\* the second run starts; the first one reached round 2, stored a running
\* summary and used hats
C27_Witness ==
  /\ pc = "started"
  /\ CountEvents("start") = 2
  /\ CountEntries("round_summary") = 1
  /\ \E k \in 1..Len(history) : history[k].message_type = "round_summary" /\ history[k].content # <<>>
  /\ CountEntries("speech") = 2
  /\ state = "running"

\* C28: during the turn of index i (0-based) and the summary that follows it,
\* the current round is (i div participants) + 1; the current round is always
\* in 1..rounds and no step of a run lowers it.
C28_RoundFollowsTurnIndex ==
  /\ [](pc \in {"turn_started", "speaking", "turn_done", "summarizing", "summary_done"}
          => /\ i \in 0..(Len(speaking_order) - 1)
             /\ current_round = (i \div Len(members)) + 1)
  /\ [](current_round \in 1..total_rounds)
  /\ [][current_round' >= current_round]_vars

\* the second turn of a one-participant, two-round run is in round 2, after a
\* summary taken in round 1
C28_Witness ==
  /\ pc = "speaking"
  /\ Len(members) = 1
  /\ i = 1
  /\ current_round = 2
  /\ CountEntries("round_summary") = 1

\* C29: the k-th backoff of a call (k = 0 first) lasts BASE_RETRY_DELAY * 2^k,
\* that is 2, 4, 8, ... seconds; one backoff lies between two consecutive
\* attempts and none follows the last failing attempt, so a call that used up
\* its attempts has slept exactly max_retries backoffs.
C29_BackoffDoubles ==
  /\ BASE_RETRY_DELAY = 2
  /\ \A k \in 1..Len(delays) : delays[k] = BASE_RETRY_DELAY * (2 ^ (k - 1))
  /\ \A k \in 1..Len(delays) : k <= 3 => delays[k] = <<2, 4, 8>>[k]
  /\ cl_pc = "attempting" => Len(delays) = attempts
  /\ cl_pc \in {"streaming", "cooling", "returned", "raised"} => Len(delays) = attempts - 1
  /\ \A k \in 1..Len(delays) : outcomes[k] = "retryable"
  /\ (/\ cl_pc = "raised"
      /\ Len(outcomes) = max_retries + 1
      /\ Last(outcomes) = "retryable")
     => Len(delays) = max_retries

\* a non-streaming call with two retries is exhausted after backoffs of 2 and 4
C29_Witness ==
  /\ cl_pc = "raised"
  /\ ~cl_stream
  /\ max_retries = 2
  /\ attempts = 3
  /\ delays = <<2, 4>>
  /\ Last(outcomes) = "retryable"

\* C30: once the follow-up call is made, every tool call of the first reply
\* has been dispatched to the search service, in order, and the follow-up
\* call's context holds exactly one tool turn for each tool call listed in
\* its assistant turn, and no other tool turn.
C30_EveryToolCallAnswered ==
  mod_pc = "followup"
  => LET ctx == Last(model_calls).context
         tool_turns(id) == {m \in 1..Len(ctx) : ctx[m].role = "tool" /\ ctx[m].ids = <<id>>}
     IN  /\ searches = [k \in 1..Len(response.tool_calls) |-> response.tool_calls[k].id]
         /\ \A k \in 1..Len(ctx) :
              ctx[k].role = "assistant"
              => /\ ctx[k].ids = [j \in 1..Len(response.tool_calls) |-> response.tool_calls[j].id]
                 /\ \A j \in 1..Len(ctx[k].ids) : Cardinality(tool_turns(ctx[k].ids[j])) = 1
         /\ Cardinality({m \in 1..Len(ctx) : ctx[m].role = "tool"}) = Len(response.tool_calls)

\* C31: the style of an after-speech summary prompt is escalate in rounds 1
\* and 2 and integrate in every later round, whatever the speaker, the speech,
\* the hat, the running summary, the total and the hat distribution.
C31_StyleFollowsRound ==
  st_pc = "prompted"
  => /\ st_prompt.kind = "provocative"
     /\ st_prompt.style = (IF st_args.current_round \in {1, 2} THEN "escalate" ELSE "integrate")
     /\ st_prompt.style \in {"escalate", "integrate"}

\* round 3 of 4 gets the integrate style, for a speaker without a hat
C31_Witness ==
  /\ st_pc = "prompted"
  /\ st_args.current_round = 3
  /\ st_args.total_rounds = 4
  /\ st_args.speaker_hat = "blank"
  /\ st_prompt.style = "integrate"

\* C32: the extracted question is empty exactly when the text holds neither
\* question mark; otherwise it is the stripped text from the last line break
\* of the last sentence that ends in a question mark up to that mark: it ends
\* with a question mark and holds no line break.
C32_QuestionIsLastLineOfLastQuestion ==
  q_pc = "returned"
  => LET marks == {k \in 1..Len(q_text) : q_text[k] \in QuestionMarks} IN
     /\ (q_result = <<>>) <=> (marks = {})
     /\ marks # {}
        => LET p == CHOOSE k \in marks : \A j \in marks : j <= k
               before == {0} \cup (marks \ {p})
               prev == CHOOSE k \in before : \A j \in before : j <= k
               breaks == {prev} \cup {k \in (prev + 1)..p : q_text[k] = "\n"}
               nl == CHOOSE k \in breaks : \A j \in breaks : j <= k
           IN  /\ q_result = Strip(SubSeq(q_text, nl + 1, p))
               /\ q_result[Len(q_result)] \in QuestionMarks
               /\ \A k \in 1..Len(q_result) : q_result[k] # "\n"

\* the last question spans two lines and follows an earlier question
C32_Witness ==
  /\ q_pc = "returned"
  /\ q_text = <<"?", "a", "\n", "fw?">>
  /\ q_result = <<"fw?">>

\* C33: what a streaming call that returns has delivered to its caller are
\* the fragments of its successful attempt only, and the Speech entry of a
\* committed turn holds no fragment of another attempt.
C33_OnlySuccessfulAttemptDelivered ==
  /\ (cl_stream /\ cl_pc = "returned")
     => \A k \in 1..Len(delivered) : delivered[k].attempt = attempt
  /\ (pc = "turn_done" /\ speech_succeeded)
     => \A k \in 1..Len(Last(history).content) : Last(history).content[k].attempt = attempt

\* C34: every run ends, whenever stop or summarize-now is requested, and when
\* it has ended the session state is Finished or Idle.
C34_RunEndsFinishedOrIdle ==
  /\ <>(pc = "done")
  /\ [](pc = "done" => state \in {"finished", "idle"})

\* C35: a flag goes from raised to clear only in the step that starts run(),
\* which clears both whatever was requested before it; a flag raised during
\* the run stays raised in every later step; and a request for a flag that is
\* already raised changes nothing.
C35_FlagsClearedOnlyAtRunStart ==
  [][/\ ((stop_requested /\ ~stop_requested') \/ (summary_requested /\ ~summary_requested'))
        => (pc = "idle" /\ pc' = "started")
     /\ (pc = "idle" /\ pc' # "idle")
        => (pc' = "started" /\ ~stop_requested' /\ ~summary_requested')
     /\ (pc # "idle" /\ stop_requested) => stop_requested'
     /\ (pc # "idle" /\ summary_requested) => summary_requested'
     /\ (stop_requested /\ request_stop) => UNCHANGED vars
     /\ (summary_requested /\ request_summary) => UNCHANGED vars
    ]_vars

\* a run that has ended after speeches, with both flags still raised
C35_Witness ==
  /\ pc = "done"
  /\ state = "finished"
  /\ stop_requested
  /\ summary_requested
  /\ CountEntries("speech") >= 1

\* C36: at every point of a run on a new session, history is a beginning of:
\* one Opening entry, then Speech entries each followed by at most one
\* RoundSummary, then at most one FinalSummary. The Opening entry is the first
\* and only one, every RoundSummary directly follows a Speech, and a
\* FinalSummary is the last entry.
C36_HistoryShape ==
  \A k \in 1..Len(history) :
    /\ history[k].message_type \in {"opening", "speech", "round_summary", "final_summary"}
    /\ (history[k].message_type = "opening") <=> (k = 1)
    /\ history[k].message_type = "round_summary"
       => (k > 1 /\ history[k - 1].message_type = "speech")
    /\ history[k].message_type = "final_summary" => k = Len(history)

\* a finished run of two turns that both succeeded, with one summary between
C36_Witness ==
  /\ state = "finished"
  /\ Len(history) = 5
  /\ history[3].message_type = "round_summary"
  /\ history[4].message_type = "speech"
  /\ history[5].message_type = "final_summary"

\* C37: at every point of a run the usage counts of the five hats sum to the
\* number of turns started, whether or not the turns succeeded, and the
\* counts of two hats differ by at most 1.
C37_CountsTallyTurns ==
  /\ hat_counts["white"] + hat_counts["red"] + hat_counts["black"]
       + hat_counts["yellow"] + hat_counts["green"] = speech_count
  /\ speech_count = CountEvents("speech_start")
  /\ \A h1 \in HatColor : \A h2 \in HatColor : hat_counts[h1] - hat_counts[h2] <= 1

\* six turns started, two of them failed: the pool was refilled after the
\* fifth and one hat has been worn twice
C37_Witness ==
  /\ speech_count = 6
  /\ CountEvents("warning") = 2
  /\ \E h \in HatColor : hat_counts[h] = 2
  /\ pc = "turn_done"

\* C38: in a run on a new session the running summary is, whenever a turn
\* starts and in every other state, the content of the most recent
\* RoundSummary entry, or empty when there is none; the step in which a turn
\* fails and the step that goes on after a turn without a summary leave it
\* unchanged.
C38_RunningSummaryIsLastRoundSummary ==
  /\ [](latest_summary = LastRoundSummary)
  /\ [][/\ (pc = "speaking" /\ pc' = "turn_done" /\ ~speech_succeeded')
           => latest_summary' = latest_summary
        /\ (pc = "turn_done" /\ pc' \in {"turn_started", "final_started"})
           => latest_summary' = latest_summary
       ]_vars

\* the second turn speaks with the summary of the first turn, which is not empty
C38_Witness ==
  /\ pc = "speaking"
  /\ speech_count = 2
  /\ latest_summary # <<>>
  /\ latest_summary = history[3].content

\* C39: a turn that is over has yielded exactly one closing event, a final
\* member event or a warning, and a turn under way none; the final member
\* event is yielded in the step that appends the turn's Speech entry and in
\* no other, the warning in the step in which the turn fails; so the final
\* member events of a run are as many as its Speech entries.
C39_TurnEndsWithOneClosingEvent ==
  /\ [](\A idx \in 1..speech_count :
          MemberFinals(idx) + TurnWarnings(idx) = (IF TurnEnded(idx) THEN 1 ELSE 0))
  /\ [](CountEntries("speech")
          = Cardinality({k \in 1..Len(events) : /\ events[k].event_type = "member"
                                                /\ events[k].tag = "final"}))
  /\ [](pc = "turn_done"
          => /\ MemberFinals(speech_count) = (IF speech_succeeded THEN 1 ELSE 0)
             /\ Last(events).tag = (IF speech_succeeded THEN "final" ELSE "warning"))
  /\ [][(MemberFinals(speech_count)' > MemberFinals(speech_count))
          <=> (CountEntries("speech")' > CountEntries("speech"))]_vars

\* two turns are over: the first failed, the second was committed
C39_Witness ==
  /\ pc = "turn_done"
  /\ speech_count = 2
  /\ TurnWarnings(1) = 1
  /\ MemberFinals(2) = 1
  /\ CountEntries("speech") = 1

\* C40: a step that raises the stop flag, or the summarize-now flag, changes
\* nothing else: not the state, history, the hat pool and counts, the speech
\* counter, the round, the running summary, the other flag, nor the run's
\* position and events.
C40_RequestsChangeOnlyTheirFlag ==
  [][/\ (~stop_requested /\ stop_requested')
        => /\ summary_requested' = summary_requested
           /\ UNCHANGED <<sessionVars, hatVars, runVars, configVars>>
     /\ (~summary_requested /\ summary_requested')
        => /\ stop_requested' = stop_requested
           /\ UNCHANGED <<sessionVars, hatVars, runVars, configVars>>
    ]_vars

\* stop was requested during the second turn of a run; summarize-now was not
C40_Witness ==
  /\ pc = "speaking"
  /\ speech_count = 2
  /\ stop_requested
  /\ ~summary_requested
  /\ Len(history) >= 2
  /\ Last(events).tag = "begin"

====
